---- MODULE Spec2Model ----
(***************************************************************************)
(* Model of src/scraper.py: the four category orchestrators of the NSE     *)
(* corporate-filings scraper (JSON API first, Selenium browser fallback),  *)
(* their API fetchers, the browser launch routine and the table parsers.   *)
(*                                                                         *)
(* One request (one symbol, one category) is one behaviour.  Text is a     *)
(* sequence of one-character strings so that upper()/strip() are computed. *)
(* Everything the origin server, the browser and the driver decide is an   *)
(* input of the step that observes it.                                     *)
(***************************************************************************)
EXTENDS Integers, Sequences, FiniteSets, TLC

\* ------------------------------------------------------------------ bounds
\* longest item list a JSON payload field carries
MaxItems == 2
\* most <tr> elements the rendered table body holds
MaxTrs == 2

\* --------------------------------------------------------------- constants
Categories == {"event_calendar", "board_meetings", "corporate_actions", "announcements"}

NSE_BASE_URL == "https://www.nseindia.com"
EVENT_CAL_URL == "/companies-listing/corporate-filings-event-calendar"
BOARD_MEETINGS_URL == "/companies-listing/corporate-filings-board-meetings"
CORP_ACTIONS_URL == "/companies-listing/corporate-filings-actions"
ANNOUNCEMENTS_URL == "/companies-listing/corporate-filings-announcements"
CORP_FILING_API == "/api/corporate-filing"
CORP_ACTIONS_API == "/api/corporate-actions"

\* the probe list with its first and last label swapped
API_TYPES_Swapped == <<"Announcements", "Corporate Announcement", "Announcement">>

\* the type labels _fetch_announcements_api probes, in order
API_TYPES == <<"Announcement", "Corporate Announcement", "Announcements">>

\* ------------------------------------------------------------------- text
Chars == {" ", "t", "T", "x", "X"}

Upper(c) == IF c = "t" THEN "T" ELSE IF c = "x" THEN "X" ELSE c

UpperText(s) == [i \in 1..Len(s) |-> Upper(s[i])]

RECURSIVE LStrip(_)
LStrip(s) == IF s # <<>> /\ Head(s) = " " THEN LStrip(Tail(s)) ELSE s

RECURSIVE RStrip(_)
RStrip(s) == IF s # <<>> /\ s[Len(s)] = " " THEN RStrip(SubSeq(s, 1, Len(s) - 1)) ELSE s

\* str.strip()
Strip(s) == RStrip(LStrip(s))

\* symbol.upper().strip(), the first statement of every orchestrator
NormalizeSymbol(s) == Strip(UpperText(s))

\* the tickers a caller passes
RawSymbols == { <<"T">>, <<" ", "t">> }

\* --------------------------------------------------------- JSON payloads
\* a JSON value of a record field: null, or a text
NoneVal == [isNone |-> TRUE]
TextVal(t) == [isNone |-> FALSE, text |-> t]

\* a list element: a keyed record (dict) or something else (a JSON string)
DictItem(d) == [isDict |-> TRUE, d |-> d]
StrItem == [isDict |-> FALSE]

\* the keyed records the origin sends: one with its own symbol, one whose
\* symbol is the empty string under one key and null under the other
ItemDicts ==
    { [symbol |-> TextVal(<<"X">>), desc |-> TextVal(<<"x", " ">>)],
      [symbol |-> TextVal(<<>>), SYMBOL |-> NoneVal, subject |-> TextVal(<<"t">>)] }

Items == {DictItem(d) : d \in ItemDicts} \cup {StrItem}

SeqsUpTo(S, n) == UNION {[1..k -> S] : k \in 0..n}

ItemLists == SeqsUpTo(Items, MaxItems)

\* a payload field: absent from the object, JSON null, or a list
Absent == [f |-> "absent"]
JsonNull == [f |-> "null"]
ListField(l) == [f |-> "list", list |-> l]
FieldVals == {Absent, JsonNull} \cup {ListField(l) : l \in ItemLists}

\* decoded payload: a JSON object (with or without other keys) or a JSON array
DictPayloads == [shape : {"dict"}, data : FieldVals, rows : FieldVals, extra : BOOLEAN]
ListPayloads == {[shape |-> "list", list |-> l] : l \in ItemLists}
Payloads == DictPayloads \cup ListPayloads

\* what one GET to the API ends in
Responses ==
    {[net |-> "error"]}
    \cup {[net |-> "ok", status |-> 403, json |-> FALSE]}
    \cup {[net |-> "ok", status |-> 200, json |-> FALSE]}
    \cup {[net |-> "ok", status |-> 200, json |-> TRUE, payload |-> p] : p \in Payloads}

\* dict.get(key): None when the key is absent or null
Get(d, key) == IF key \in DOMAIN d THEN d[key] ELSE NoneVal

\* a test that lets the empty string through
Usable_NonNull(val) == ~val.isNone

\* `val is not None and val != ""`
Usable(val) == ~val.isNone /\ val.text # <<>>

\* _pick(item, keys, default)
RECURSIVE _pick(_, _, _)
_pick(item, keys, default) ==
    IF keys = <<>> THEN default
    ELSE LET val == Get(item, Head(keys)) IN
         IF Usable(val) THEN Strip(val.text)
         ELSE _pick(item, Tail(keys), default)

\* Python truthiness of a payload field returned by payload.get(...)
FieldTruthy(v) == v.f = "list" /\ v.list # <<>>

\* number of keys of the payload object
NumKeys(p) ==
    (IF p.data.f = "absent" THEN 0 ELSE 1)
    + (IF p.rows.f = "absent" THEN 0 ELSE 1)
    + (IF p.extra THEN 1 ELSE 0)

\* items = payload.get("data") or payload.get("rows") or payload or []
\* for a JSON object; iterating the object itself yields its keys (strings)
ItemsOf(p) ==
    IF FieldTruthy(p.data) THEN p.data.list
    ELSE IF FieldTruthy(p.rows) THEN p.rows.list
    ELSE [i \in 1..NumKeys(p) |-> StrItem]

\* the row one API item becomes, per category
RowOfItem(c, item, symbol) ==
    IF c = "corporate_actions" THEN
        [symbol |-> _pick(item, <<"symbol", "SYMBOL">>, symbol),
         company |-> _pick(item, <<"company", "comp", "companyName">>, <<>>),
         series |-> _pick(item, <<"series">>, <<>>),
         purpose |-> _pick(item, <<"subject", "purpose">>, <<>>),
         face_value |-> _pick(item, <<"faceVal", "face_value">>, <<>>),
         ex_date |-> _pick(item, <<"exDate", "ex_date">>, <<>>),
         record_date |-> _pick(item, <<"recDate", "recordDate", "rec_date">>, <<>>),
         book_closure_start |-> _pick(item, <<"bcStartDate", "bc_start_date">>, <<>>),
         book_closure_end |-> _pick(item, <<"bcEndDate", "bc_end_date">>, <<>>)]
    ELSE IF c = "board_meetings" THEN
        [symbol |-> _pick(item, <<"symbol", "SYMBOL">>, symbol),
         company |-> _pick(item, <<"sm_name", "company", "companyName">>, <<>>),
         purpose |-> _pick(item, <<"bm_purpose", "purpose", "subject">>, <<>>),
         details_link |-> _pick(item, <<"detailsUrl", "details_link", "bm_details">>, <<>>),
         meeting_date |-> _pick(item, <<"bm_date", "meetingDate", "meeting_date">>, <<>>),
         attachment_link |-> _pick(item, <<"attachment", "attachmentUrl", "pdfUrl", "xmlUrl">>, <<>>),
         broadcast_datetime |-> _pick(item, <<"bm_timestamp", "broadcastDateTime", "broadcast_time">>, <<>>)]
    ELSE IF c = "event_calendar" THEN
        [symbol |-> _pick(item, <<"symbol", "SYMBOL">>, symbol),
         company |-> _pick(item, <<"company", "companyName", "sm_name">>, <<>>),
         purpose |-> _pick(item, <<"purpose", "subject", "event">>, <<>>),
         details |-> _pick(item, <<"details", "description", "bmdesc", "eventDescription">>, <<>>),
         date |-> _pick(item, <<"date", "eventDate", "bm_date">>, <<>>)]
    ELSE
        [symbol |-> _pick(item, <<"symbol", "SYMBOL">>, symbol),
         company |-> _pick(item, <<"sm_name", "company", "companyName">>, <<>>),
         subject |-> _pick(item, <<"desc", "subject", "purpose">>, <<>>),
         details |-> _pick(item, <<"attchmntText", "details", "description">>, <<>>),
         attachment_link |-> _pick(item, <<"attachment", "attachmentUrl", "pdfUrl">>, <<>>),
         attachment_size |-> _pick(item, <<"attachmentSize", "size">>, <<>>),
         xbrl_link |-> _pick(item, <<"xbrlUrl", "xbrl_link", "xmlUrl">>, <<>>),
         broadcast_datetime |-> _pick(item, <<"an_dt", "broadcastDateTime", "broadcast_time">>, <<>>)]

\* the rows.append loop; only called on lists of keyed records
BuildRows(c, items, symbol) == [i \in 1..Len(items) |-> RowOfItem(c, items[i].d, symbol)]

AllDicts(items) == \A i \in 1..Len(items) : items[i].isDict

\* One API GET, from session.get to the end of the row loop.  kind:
\*   "neterr"   session.get raised (connection error, timeout)
\*   "status"   raise_for_status raised
\*   "badjson"  resp.json() raised
\*   "badshape" payload.get / item.get raised AttributeError
\*   "empty"    the item collection is empty
\*   "rows"     at least one row was built
ApiOutcome(c, resp, symbol) ==
    IF resp.net = "error" THEN [kind |-> "neterr", rows |-> <<>>]
    ELSE IF resp.status >= 400 THEN [kind |-> "status", rows |-> <<>>]
    ELSE IF ~resp.json THEN [kind |-> "badjson", rows |-> <<>>]
    ELSE IF resp.payload.shape = "list" THEN [kind |-> "badshape", rows |-> <<>>]
    ELSE LET items == ItemsOf(resp.payload) IN
         IF items = <<>> THEN [kind |-> "empty", rows |-> <<>>]
         ELSE IF ~AllDicts(items) THEN [kind |-> "badshape", rows |-> <<>>]
         ELSE [kind |-> "rows", rows |-> BuildRows(c, items, symbol)]

ErrorKinds == {"neterr", "status", "badjson", "badshape"}

\* ------------------------------------------------------------ rendered page
\* minimum <td> count of a body row, per parser
MinCells(c) ==
    IF c = "event_calendar" THEN 4
    ELSE IF c = "corporate_actions" THEN 9
    ELSE 7

\* the href of the anchor in a link cell, as its leading pieces: no anchor
\* (or no href), a path on the origin, a fully-qualified URL
NoHref == <<>>
RelHref == <<"/", "doc.pdf">>
AbsHref == <<"https://archives.example", "/", "doc.pdf">>

\* a body row of the page: its <td> count, the text of its first cell and
\* the hrefs of its two link cells
TRs(c) == { [n |-> MinCells(c) - 1, sym |-> <<"X">>, hrefs |-> <<NoHref, NoHref>>],
            [n |-> MinCells(c), sym |-> <<" ", "X">>, hrefs |-> <<NoHref, NoHref>>] }

\* the page as far as the category's table goes
NoTable == [hasTable |-> FALSE, hasTbody |-> FALSE, trs |-> <<>>]
Doms(c) ==
    {NoTable, [hasTable |-> TRUE, hasTbody |-> FALSE, trs |-> <<>>]}
    \cup {[hasTable |-> TRUE, hasTbody |-> TRUE, trs |-> t] : t \in SeqsUpTo(TRs(c), MaxTrs)}

\* `if xbrl_link.startswith("/"): xbrl_link = NSE_BASE_URL + xbrl_link`
AbsoluteLink(h) == IF h # <<>> /\ Head(h) = "/" THEN <<NSE_BASE_URL>> \o h ELSE h

\* the row a parser appends for an admitted <tr>; get_text(strip=True) for
\* the symbol, anchor["href"] as it stands for details_link and both
\* attachment_link fields, the rewritten href for xbrl_link
RowOfTr(c, tr) ==
    IF c = "corporate_actions" THEN
        [symbol |-> Strip(tr.sym), company |-> <<>>, series |-> <<>>, purpose |-> <<>>,
         face_value |-> <<>>, ex_date |-> <<>>, record_date |-> <<>>,
         book_closure_start |-> <<>>, book_closure_end |-> <<>>]
    ELSE IF c = "board_meetings" THEN
        [symbol |-> Strip(tr.sym), company |-> <<>>, purpose |-> <<>>,
         details_link |-> tr.hrefs[1], meeting_date |-> <<>>,
         attachment_link |-> tr.hrefs[2], broadcast_datetime |-> <<>>]
    ELSE IF c = "event_calendar" THEN
        [symbol |-> Strip(tr.sym), company |-> <<>>, purpose |-> <<>>, details |-> <<>>,
         date |-> <<>>]
    ELSE
        [symbol |-> Strip(tr.sym), company |-> <<>>, subject |-> <<>>, details |-> <<>>,
         attachment_link |-> tr.hrefs[1], attachment_size |-> <<>>,
         xbrl_link |-> AbsoluteLink(tr.hrefs[2]), broadcast_datetime |-> <<>>]

\* a parser that wants one cell more
Admitted_Strict(c, tr) == tr.n > MinCells(c)

\* `if len(tds) < N: continue`
Admitted(c, tr) == ~(tr.n < MinCells(c))

RECURSIVE ParseTrs(_, _)
ParseTrs(c, trs) ==
    IF trs = <<>> THEN <<>>
    ELSE IF ~Admitted(c, Head(trs)) THEN ParseTrs(c, Tail(trs))
    ELSE <<RowOfTr(c, Head(trs))>> \o ParseTrs(c, Tail(trs))

\* _parse_<category>_table(html)
ParseTable(c, h) ==
    IF ~h.hasTable THEN <<>>
    ELSE IF ~h.hasTbody THEN <<>>
    ELSE ParseTrs(c, h.trs)

\* _count_table_rows_js on "#CFanncEquityTable": the tbody row count
CountTableRows(d) == IF d.hasTable /\ d.hasTbody THEN Len(d.trs) ELSE 0

\* ------------------------------------------------------------------ errors
NoExc == [type |-> "none", src |-> "none", namesCat |-> FALSE, namesSym |-> FALSE, wraps |-> FALSE]
Err(type, src, namesCat, namesSym, wraps) ==
    [type |-> type, src |-> src, namesCat |-> namesCat, namesSym |-> namesSym, wraps |-> wraps]

\* the exception an API fetcher raises for a failed request
ApiError(kind) ==
    IF kind = "neterr" THEN Err("ConnectionError", "api", FALSE, FALSE, FALSE)
    ELSE IF kind = "status" THEN Err("HTTPError", "api", FALSE, FALSE, FALSE)
    ELSE IF kind = "badjson" THEN Err("JSONDecodeError", "api", FALSE, FALSE, FALSE)
    ELSE Err("AttributeError", "api", FALSE, FALSE, FALSE)

NoResult == [kind |-> "none", rows |-> <<>>, err |-> NoExc]
RowsResult(r) == [kind |-> "rows", rows |-> r, err |-> NoExc]
ErrResult(e) == [kind |-> "error", rows |-> <<>>, err |-> e]

\* ------------------------------------------------------------------- state
VARIABLES
    cat,                            \* which orchestrator serves the request
    USE_SELENIUM_FALLBACK,          \* module-level toggle, read at import
    DISABLE_ANNOUNCEMENTS_SELENIUM, \* module-level toggle, read at import
    symbol,                         \* the orchestrator's `symbol` variable
    pc,                             \* position in the orchestrator
    session,                        \* "none" | "primed"
    apiLog,                         \* the API GETs sent, with what came back
    apiRet,                         \* what the API fetcher returned or raised
    driver,                         \* the orchestrator's `driver`: "None" | "set"
    browser,                        \* "none" | "live" | "quit" | "unknown"
    buildCalls,                     \* calls of _build_driver
    launches,                       \* webdriver.Chrome instances created
    quitCalls,                      \* calls of driver.quit()
    quitRaised,                     \* driver.quit() raised
    tries,                          \* the navigation retry counter
    navs,                           \* URLs driver.get loaded
    dom,                            \* the live page
    html,                           \* the orchestrator's `html`
    rows,                           \* the orchestrator's `rows`
    exc,                            \* exception in flight
    retval,                         \* value of a pending return
    artifacts,                      \* prefixes of _save_debug_artifacts calls
    result,                         \* what the caller gets
    payload,                        \* the decoded JSON body a fetcher is applied to
    timeout,                        \* wait_for_table_rows: the `timeout` argument
    now,                            \* time.time(), in poll intervals
    end,                            \* wait_for_table_rows: `end`
    last_pending_zero_time,         \* wait_for_table_rows: None or a time
    pendingRequests,                \* window.__pendingRequests of the page
    polls,                          \* row counts taken by the main poll
    sawRows,                        \* some count of the waiter was above zero
    sourceFailed,                   \* driver.page_source raised after such a count
    quiesced,                       \* times the settle window was seen elapsed
    injected,                       \* window.__pendingRequestsInjected of the page
    pickCall,                       \* the arguments of a call of _pick
    picked,                         \* what that call returned
    reqPc,                          \* concurrent requests: position of each
    sessionOf,                      \* concurrent requests: each one's `session`
    driverOf,                       \* concurrent requests: each one's `driver`
    created,                        \* sessions and browsers created, with their creator
    ops,                            \* uses of a session or browser: who used which
    wrappers,                       \* layers of wrapping around fetch / XHR send
    inflight,                       \* requests of the page that have not completed
    injections,                     \* executions of INJECT_PENDING_REQUESTS on the page
    listeners,                      \* readystatechange listeners the script put on each XHR object
    captures                        \* calls of _save_debug_artifacts: who, and the two files written

vars == <<cat, USE_SELENIUM_FALLBACK, DISABLE_ANNOUNCEMENTS_SELENIUM, symbol, pc, session,
          apiLog, apiRet, driver, browser, buildCalls, launches, quitCalls, quitRaised,
          tries, navs, dom, html, rows, exc, retval, artifacts, result, payload,
          timeout, now, end, last_pending_zero_time, pendingRequests, injected, polls,
          sawRows, sourceFailed, quiesced, pickCall, picked, reqPc, sessionOf, driverOf,
          created, ops, wrappers, inflight, injections, listeners, captures>>

config == <<cat, USE_SELENIUM_FALLBACK, DISABLE_ANNOUNCEMENTS_SELENIUM>>
apiVars == <<session, apiLog, apiRet>>
browserVars == <<driver, browser, buildCalls, launches, quitCalls, quitRaised>>
pageVars == <<tries, navs, dom, html, rows, artifacts>>
fetchVars == <<payload>>
clockVars == <<timeout, now, end>>
waiterVars == <<clockVars, last_pending_zero_time, pendingRequests, injected, polls,
                sawRows, sourceFailed, quiesced>>

NoRet == [kind |-> "none", rows |-> <<>>, err |-> NoExc]
Returned(r) == [kind |-> "return", rows |-> r, err |-> NoExc]
Raised(e) == [kind |-> "raise", rows |-> <<>>, err |-> e]

pickVars == <<pickCall, picked>>
concVars == <<reqPc, sessionOf, driverOf, created, ops>>
scriptVars == <<wrappers, inflight, injections, listeners>>
captureVars == <<captures>>
auxVars == <<pickVars, concVars, scriptVars, captureVars>>

\* no fetcher has been handed a decoded body
NoPayload == [shape |-> "none"]

\* last_pending_zero_time = None
NoTime == -1

\* nothing requested, no browser, no page, no outcome
RequestInit ==
    /\ apiLog = <<>>
    /\ apiRet = NoRet
    /\ driver = "None"
    /\ browser = "none"
    /\ buildCalls = 0
    /\ launches = 0
    /\ quitCalls = 0
    /\ quitRaised = FALSE
    /\ tries = 0
    /\ navs = <<>>
    /\ dom = NoTable
    /\ html = NoTable
    /\ rows = <<>>
    /\ exc = NoExc
    /\ retval = NoRet
    /\ artifacts = <<>>
    /\ result = NoResult

\* no call of wait_for_table_rows is being looked into
WaiterInit ==
    /\ timeout = 0
    /\ now = 0
    /\ end = 0
    /\ last_pending_zero_time = NoTime
    /\ pendingRequests = 0
    /\ injected = FALSE
    /\ polls = 0
    /\ sawRows = FALSE
    /\ sourceFailed = FALSE
    /\ quiesced = 0

\* no call of _pick, no concurrent requests, no page script being looked into
NoCall == [item |-> <<>>, keys |-> <<>>, default |-> <<>>]
NoPick == [done |-> FALSE, text |-> <<>>]

AuxInit ==
    /\ pickCall = NoCall
    /\ picked = NoPick
    /\ reqPc = <<>>
    /\ sessionOf = <<>>
    /\ driverOf = <<>>
    /\ created = <<>>
    /\ ops = {}
    /\ wrappers = 0
    /\ inflight = <<>>
    /\ injections = 0
    /\ listeners = <<>>
    /\ captures = <<>>

Init ==
    /\ cat \in Categories
    /\ USE_SELENIUM_FALLBACK \in BOOLEAN
    /\ DISABLE_ANNOUNCEMENTS_SELENIUM \in BOOLEAN
    /\ symbol \in RawSymbols
    /\ pc = "start"
    /\ session = "none"
    /\ RequestInit
    /\ payload = NoPayload
    /\ WaiterInit
    /\ AuxInit

\* --------------------------------------------------------------- API stage
\* symbol = symbol.upper().strip()
Start ==
    /\ pc = "start"
    /\ symbol' = NormalizeSymbol(symbol)
    /\ pc' = "api_warmup"
    /\ UNCHANGED <<config, fetchVars, waiterVars, auxVars, apiVars, browserVars, pageVars, exc, retval, result>>

\* a fetcher that goes on to its API request with the session it has
AfterWarmupFailure_GoOn == "api_request"

\* the exception of session.get / raise_for_status leaves _init_nse_session
\* and the fetcher that called it
AfterWarmupFailure == "api_return"

\* _init_nse_session: GET the origin root, raise_for_status
_init_nse_session ==
    /\ pc = "api_warmup"
    /\ \E outcome \in {"ok", "neterr", "status"} :
        IF outcome = "ok"
        THEN /\ session' = "primed"
             /\ pc' = "api_request"
             /\ apiRet' = apiRet
        ELSE /\ session' = session
             /\ pc' = AfterWarmupFailure
             /\ apiRet' = Raised([ApiError(outcome) EXCEPT !.src = "warmup"])
    /\ UNCHANGED <<config, fetchVars, waiterVars, auxVars, symbol, apiLog, browserVars, pageVars, exc, retval, result>>

\* endpoint and type parameter of the three single-request fetchers
ApiTypeOf(c) ==
    IF c = "board_meetings" THEN "Board Meeting"
    ELSE IF c = "event_calendar" THEN "Event Calendar"
    ELSE "<none>"

ApiUrlOf(c) == IF c = "corporate_actions" THEN CORP_ACTIONS_API ELSE CORP_FILING_API

LogEntry(url, type, sym, out) ==
    [url |-> url, type |-> type, symbol |-> sym, kind |-> out.kind, rows |-> out.rows]

\* _fetch_event_calendar_api, _fetch_board_meetings_api,
\* _fetch_corporate_actions_api after the warm-up, for the response `resp`
\* of the one GET: any failure raises
FetchOne(resp) ==
    LET out == ApiOutcome(cat, resp, symbol) IN
    /\ apiLog' = Append(apiLog, LogEntry(ApiUrlOf(cat), ApiTypeOf(cat), symbol, out))
    /\ apiRet' = IF out.kind \in ErrorKinds THEN Raised(ApiError(out.kind))
                 ELSE Returned(out.rows)
    /\ pc' = "api_return"
    /\ UNCHANGED <<config, fetchVars, waiterVars, auxVars, symbol, session, browserVars, pageVars,
                   exc, retval, result>>

\* the single-request fetchers, whatever the origin answers
FetchApi ==
    /\ pc = "api_request"
    /\ cat # "announcements"
    /\ \E resp \in Responses : FetchOne(resp)

\* a fetcher that hands back its rows only when there are several
AnnReturnsRows_Several(r) == Len(r) > 1

\* `if rows:` before `return rows` in _fetch_announcements_api
AnnReturnsRows(r) == r # <<>>

\* _fetch_announcements_api after the warm-up: one iteration of the loop over
\* the type labels, for the response `resp` of its GET; a failed request is
\* caught and the loop continues
AnnFetchOne(resp) ==
    LET i == Len(apiLog) + 1
        out == ApiOutcome(cat, resp, symbol) IN
    /\ apiLog' = Append(apiLog, LogEntry(CORP_FILING_API, API_TYPES[i], symbol, out))
    /\ IF out.kind = "rows" /\ AnnReturnsRows(out.rows)
       THEN /\ apiRet' = Returned(out.rows)
            /\ pc' = "api_return"
       ELSE IF i = Len(API_TYPES)
       THEN /\ apiRet' = Returned(<<>>)
            /\ pc' = "api_return"
       ELSE /\ apiRet' = apiRet
            /\ pc' = "api_request"
    /\ UNCHANGED <<config, fetchVars, waiterVars, auxVars, symbol, session, browserVars, pageVars,
                   exc, retval, result>>

\* the announcements fetcher, whatever the origin answers
_fetch_announcements_api ==
    /\ pc = "api_request"
    /\ cat = "announcements"
    /\ \E resp \in Responses : AnnFetchOne(resp)

\* a fast path taken only for more than one row
ApiRowsReturned_Several(r) == Len(r) > 1

\* `if rows:` / `if api_rows and len(api_rows) > 0:` in the orchestrators
ApiRowsReturned(r) == r # <<>>

\* an except clause that lets HTTP status errors through
ApiExceptCatches_NotHttp(e) == e.type # "HTTPError"

\* `except Exception:` around the API attempt
ApiExceptCatches(e) == TRUE

\* the orchestrator's try/except around the API fetcher
ApiAttemptEnd ==
    /\ pc = "api_return"
    /\ IF apiRet.kind = "return" /\ ApiRowsReturned(apiRet.rows)
       THEN /\ result' = RowsResult(apiRet.rows)
            /\ pc' = "done"
       ELSE IF apiRet.kind = "raise" /\ ~ApiExceptCatches(apiRet.err)
       THEN /\ result' = ErrResult(apiRet.err)
            /\ pc' = "done"
       ELSE /\ result' = result
            /\ pc' = "gate"
    /\ UNCHANGED <<config, fetchVars, waiterVars, auxVars, symbol, apiVars, browserVars, pageVars, exc, retval>>

\* a gate that lets every request through to the browser
GateCloses_Never(fallback) == FALSE

\* `if not USE_SELENIUM_FALLBACK:`
GateCloses(fallback) == ~fallback

\* `if not USE_SELENIUM_FALLBACK: raise RuntimeError(...)`
FallbackGate ==
    /\ pc = "gate"
    /\ IF GateCloses(USE_SELENIUM_FALLBACK)
       THEN /\ result' = ErrResult(Err("RuntimeError", "fallback_disabled", FALSE, FALSE, FALSE))
            /\ pc' = "done"
       ELSE /\ result' = result
            /\ pc' = "build_driver"
    /\ UNCHANGED <<config, fetchVars, waiterVars, auxVars, symbol, apiVars, browserVars, pageVars, exc, retval>>

\* ----------------------------------------------------------- browser launch
WebDriverError(src) == Err("WebDriverException", src, FALSE, FALSE, FALSE)
TimeoutError(src) == Err("TimeoutException", src, FALSE, FALSE, FALSE)

\* How a call of _build_driver ends:
\*   "no_binary"  the Chrome binary or chromedriver path does not exist
\*   "install"    ChromeDriverManager().install() raised
\*   "no_start"   webdriver.Chrome(...) raised
\*   "configure"  webdriver.Chrome(...) returned, set_page_load_timeout(30) raised
\*   "ok"         the driver is returned
BuildOutcomes == {"no_binary", "install", "no_start", "configure", "ok"}

\* a launch failure that is swallowed
BuildError_Swallowed(o) == NoExc

\* the exception _build_driver raises
BuildError(o) ==
    IF o = "no_binary" THEN Err("RuntimeError", "launch", FALSE, FALSE, FALSE)
    ELSE IF o = "install" THEN Err("Exception", "launch", FALSE, FALSE, FALSE)
    ELSE Err("RuntimeError", "launch", FALSE, FALSE, TRUE)

\* the browser process exists once webdriver.Chrome(...) has returned
BuildCreatesBrowser(o) == o \in {"configure", "ok"}

\* an orchestrator that launches again after a failed launch
AfterLaunchFailure_Retry(c) == "build_driver"

\* where a failed launch leaves the orchestrator: the announcements handlers,
\* or out of the function
AfterLaunchFailure(c) == IF c = "announcements" THEN "ann_except" ELSE "done"

\* driver = _build_driver(headless=headless).  In the three short
\* orchestrators the call is outside the try; in announcements it is inside,
\* with `driver` still None when it raises.
_build_driver ==
    /\ pc = "build_driver"
    /\ buildCalls' = buildCalls + 1
    /\ \E o \in BuildOutcomes :
        /\ launches' = IF BuildCreatesBrowser(o) THEN launches + 1 ELSE launches
        /\ browser' = IF BuildCreatesBrowser(o) THEN "live" ELSE browser
        /\ IF o = "ok"
           THEN /\ driver' = "set"
                /\ pc' = IF cat = "announcements" THEN "ann_set_timeouts" ELSE "nav_base"
                /\ UNCHANGED <<exc, result>>
           ELSE IF cat = "announcements"
           THEN /\ driver' = driver
                /\ exc' = BuildError(o)
                /\ pc' = AfterLaunchFailure(cat)
                /\ result' = result
           ELSE /\ driver' = driver
                /\ exc' = exc
                /\ result' = ErrResult(BuildError(o))
                /\ pc' = AfterLaunchFailure(cat)
    /\ UNCHANGED <<config, fetchVars, waiterVars, auxVars, symbol, apiVars, quitCalls, quitRaised, pageVars, retval>>

CategoryUrl(c) ==
    IF c = "event_calendar" THEN EVENT_CAL_URL
    ELSE IF c = "board_meetings" THEN BOARD_MEETINGS_URL
    ELSE IF c = "corporate_actions" THEN CORP_ACTIONS_URL
    ELSE ANNOUNCEMENTS_URL

\* driver.get(NSE_BASE_URL)
BaseNav == [url |-> NSE_BASE_URL, symbol |-> <<>>]

\* a navigation that leaves the ticker out of the query
CategoryNav_NoSymbol(c, sym) == [url |-> CategoryUrl(c), symbol |-> <<>>]

\* driver.get(f"{URL}?symbol={symbol}")
CategoryNav(c, sym) == [url |-> CategoryUrl(c), symbol |-> sym]

\* the page's scripts go on rendering while the orchestrator waits: the table
\* is built, rows are added, a redraw empties the body again
PageRender ==
    /\ browser = "live"
    /\ pc \in {"wait_table", "read_parse", "ann_ready_page", "ann_wait_table",
               "ann_wait_tbody", "ann_wait_rows", "ann_parse", "ann_scroll",
               "ann_timeout_read", "ann_timeout_parse"}
    /\ \/ /\ ~dom.hasTable
          /\ dom' = [dom EXCEPT !.hasTable = TRUE]
       \/ /\ dom.hasTable /\ ~dom.hasTbody
          /\ dom' = [dom EXCEPT !.hasTbody = TRUE]
       \/ /\ dom.hasTable /\ dom.hasTbody /\ Len(dom.trs) < MaxTrs
          /\ \E tr \in TRs(cat) : dom' = [dom EXCEPT !.trs = Append(@, tr)]
       \/ /\ dom.trs # <<>>
          /\ dom' = [dom EXCEPT !.trs = <<>>]
    /\ UNCHANGED <<config, fetchVars, waiterVars, auxVars, symbol, pc, apiVars, browserVars, tries, navs, html, rows,
                   artifacts, exc, retval, result>>

\* ------------------------------------------- the three short orchestrators
\* driver.get(NSE_BASE_URL)
NavBase ==
    /\ pc = "nav_base"
    /\ \/ /\ navs' = Append(navs, BaseNav)
          /\ pc' = "nav_url"
          /\ exc' = exc
       \/ /\ navs' = navs
          /\ exc' = WebDriverError("nav_base")
          /\ pc' = "finally"
    /\ UNCHANGED <<config, fetchVars, waiterVars, auxVars, symbol, apiVars, browserVars, tries, dom, html, rows, artifacts,
                   retval, result>>

\* driver.get(f"{URL}?symbol={symbol}")
NavUrl ==
    /\ pc = "nav_url"
    /\ \/ /\ navs' = Append(navs, CategoryNav(cat, symbol))
          /\ dom' \in Doms(cat)
          /\ pc' = "wait_table"
          /\ exc' = exc
       \/ /\ navs' = navs
          /\ dom' = dom
          /\ exc' = WebDriverError("nav_url")
          /\ pc' = "finally"
    /\ UNCHANGED <<config, fetchVars, waiterVars, auxVars, symbol, apiVars, browserVars, tries, html, rows, artifacts,
                   retval, result>>

\* WebDriverWait(driver, 15).until(presence_of_element_located((By.ID, <table id>)))
WaitTable ==
    /\ pc = "wait_table"
    /\ \/ /\ dom.hasTable
          /\ pc' = "read_parse"
          /\ exc' = exc
       \/ /\ ~dom.hasTable
          /\ exc' = TimeoutError("wait_table")
          /\ pc' = "finally"
       \/ /\ exc' = WebDriverError("wait_table")
          /\ pc' = "finally"
    /\ UNCHANGED <<config, fetchVars, waiterVars, auxVars, symbol, apiVars, browserVars, pageVars, retval, result>>

\* html = driver.page_source; return _parse_<category>_table(html)
ReadParse ==
    /\ pc = "read_parse"
    /\ \/ /\ html' = dom
          /\ rows' = ParseTable(cat, dom)
          /\ retval' = Returned(ParseTable(cat, dom))
          /\ exc' = exc
       \/ /\ exc' = WebDriverError("page_source")
          /\ UNCHANGED <<html, rows, retval>>
    /\ pc' = "finally"
    /\ UNCHANGED <<config, fetchVars, waiterVars, auxVars, symbol, apiVars, browserVars, tries, navs, dom, artifacts, result>>

\* a request that hands back the first row only
Outcome_FirstRow(e, r) ==
    IF e.type # "none" THEN ErrResult(e)
    ELSE RowsResult(IF r.rows = <<>> THEN <<>> ELSE <<Head(r.rows)>>)

\* what the request ends in once the finally clause is through
Outcome(e, r) == IF e.type # "none" THEN ErrResult(e) ELSE RowsResult(r.rows)

\* finally: driver.quit()   -- an exception of quit() replaces the outcome
Finally ==
    /\ pc = "finally"
    /\ quitCalls' = quitCalls + 1
    /\ \/ /\ browser' = "quit"
          /\ quitRaised' = quitRaised
          /\ result' = Outcome(exc, retval)
       \/ /\ browser' = "unknown"
          /\ quitRaised' = TRUE
          /\ result' = ErrResult(WebDriverError("quit"))
    /\ pc' = "done"
    /\ UNCHANGED <<config, fetchVars, waiterVars, auxVars, symbol, apiVars, driver, buildCalls, launches, pageVars, exc, retval>>

\* ------------------------------------------------ get_announcements_for_symbol
\* driver.set_page_load_timeout(page_timeout); driver.set_script_timeout(page_timeout)
AnnSetTimeouts ==
    /\ pc = "ann_set_timeouts"
    /\ \/ /\ pc' = "ann_nav_base"
          /\ exc' = exc
       \/ /\ exc' = WebDriverError("set_timeouts")
          /\ pc' = "ann_except"
    /\ tries' = 0
    /\ UNCHANGED <<config, fetchVars, waiterVars, auxVars, symbol, apiVars, browserVars, navs, dom, html, rows, artifacts,
                   retval, result>>

\* while tries < 2: driver.get(base_url), one retry, then re-raise
AnnNavBase ==
    /\ pc = "ann_nav_base"
    /\ tries < 2
    /\ tries' = tries + 1
    /\ \/ /\ navs' = Append(navs, BaseNav)
          /\ pc' = "ann_ready_base"
          /\ exc' = exc
       \/ /\ navs' = navs
          /\ IF tries + 1 >= 2
             THEN /\ exc' = WebDriverError("nav_base")
                  /\ pc' = "ann_except"
             ELSE /\ exc' = exc
                  /\ pc' = "ann_nav_base"
    /\ UNCHANGED <<config, fetchVars, waiterVars, auxVars, symbol, apiVars, browserVars, dom, html, rows, artifacts,
                   retval, result>>

\* WebDriverWait(driver, 15).until(readyState == "complete"); a timeout is
\* logged and ignored, any other driver error propagates
AnnReadyBase ==
    /\ pc = "ann_ready_base"
    /\ \/ /\ pc' = "ann_nav_url"
          /\ exc' = exc
       \/ /\ exc' = WebDriverError("ready_base")
          /\ pc' = "ann_except"
    /\ tries' = 0
    /\ UNCHANGED <<config, fetchVars, waiterVars, auxVars, symbol, apiVars, browserVars, navs, dom, html, rows, artifacts,
                   retval, result>>

\* while tries < 2: driver.get(url), one retry, then re-raise
AnnNavUrl ==
    /\ pc = "ann_nav_url"
    /\ tries < 2
    /\ tries' = tries + 1
    /\ \/ /\ navs' = Append(navs, CategoryNav(cat, symbol))
          /\ dom' \in Doms(cat)
          /\ pc' = "ann_ready_page"
          /\ exc' = exc
       \/ /\ navs' = navs
          /\ dom' = dom
          /\ IF tries + 1 >= 2
             THEN /\ exc' = WebDriverError("nav_url")
                  /\ pc' = "ann_except"
             ELSE /\ exc' = exc
                  /\ pc' = "ann_nav_url"
    /\ UNCHANGED <<config, fetchVars, waiterVars, auxVars, symbol, apiVars, browserVars, html, rows, artifacts, retval, result>>

\* WebDriverWait(driver, 25).until(readyState == "complete")
AnnReadyPage ==
    /\ pc = "ann_ready_page"
    /\ \/ /\ pc' = "ann_wait_table"
          /\ exc' = exc
       \/ /\ exc' = WebDriverError("ready_page")
          /\ pc' = "ann_except"
    /\ UNCHANGED <<config, fetchVars, waiterVars, auxVars, symbol, apiVars, browserVars, pageVars, retval, result>>

\* WebDriverWait(driver, 30).until(presence of #CFanncEquityTable); the
\* timeout is logged and re-raised
AnnWaitTable ==
    /\ pc = "ann_wait_table"
    /\ \/ /\ dom.hasTable
          /\ pc' = "ann_wait_tbody"
          /\ exc' = exc
       \/ /\ ~dom.hasTable
          /\ exc' = TimeoutError("wait_table")
          /\ pc' = "ann_except"
       \/ /\ exc' = WebDriverError("wait_table")
          /\ pc' = "ann_except"
    /\ UNCHANGED <<config, fetchVars, waiterVars, auxVars, symbol, apiVars, browserVars, pageVars, retval, result>>

\* WebDriverWait(driver, 30).until(presence of "#CFanncEquityTable tbody");
\* the timeout is logged and ignored
AnnWaitTbody ==
    /\ pc = "ann_wait_tbody"
    /\ \/ /\ pc' = "ann_wait_rows"
          /\ exc' = exc
       \/ /\ exc' = WebDriverError("wait_tbody")
          /\ pc' = "ann_except"
    /\ UNCHANGED <<config, fetchVars, waiterVars, auxVars, symbol, apiVars, browserVars, pageVars, retval, result>>

\* a timeout that leaves no artifacts behind
TimeoutArtifacts_None(a) == a

\* _save_debug_artifacts(driver, prefix="wait_for_table_timeout")
TimeoutArtifacts(a) == Append(a, "wait_for_table_timeout")

\* html = wait_for_table_rows(driver, "#CFanncEquityTable", ...): returns
\* the page source once a poll counts a row; when the deadline passes (no
\* row, or every poll failing) it saves the debug artifacts once and raises
\* TimeoutException, whose message carries current_url if that could be read
wait_for_table_rows ==
    /\ pc = "ann_wait_rows"
    /\ \/ /\ CountTableRows(dom) > 0
          /\ sawRows' = TRUE
          /\ html' = dom
          /\ pc' = "ann_parse"
          /\ UNCHANGED <<artifacts, exc>>
       \/ /\ artifacts' = TimeoutArtifacts(artifacts)
          /\ \E urlRead \in BOOLEAN :
                exc' = Err("TimeoutException", "waiter", FALSE, urlRead, FALSE)
          /\ pc' = "ann_timeout_read"
          /\ UNCHANGED <<html, sawRows>>
    /\ UNCHANGED <<config, fetchVars, auxVars, clockVars, last_pending_zero_time, pendingRequests,
                   injected, polls, sourceFailed, quiesced, symbol, apiVars, browserVars,
                   tries, navs, dom, rows, retval, result>>

\* an orchestrator that scrolls and re-reads whatever the parse gave
ScrollWanted_Always(r) == TRUE

\* `if rows and len(rows) > 0:` before the scroll
ScrollWanted(r) == r # <<>>

\* rows = _parse_announcements_table(html); the scroll only with rows,
\* `return rows` otherwise
AnnParse ==
    /\ pc = "ann_parse"
    /\ rows' = ParseTable(cat, html)
    /\ IF ScrollWanted(ParseTable(cat, html))
       THEN /\ pc' = "ann_scroll"
            /\ retval' = retval
       ELSE /\ pc' = "ann_finally"
            /\ retval' = Returned(<<>>)
    /\ UNCHANGED <<config, fetchVars, waiterVars, auxVars, symbol, apiVars, browserVars, tries, navs, dom, html, artifacts,
                   exc, result>>

\* a re-check whose rows are taken whatever their number
ScrollAccepts_Always(after, initial_count) == TRUE

\* `if len(rows_after_scroll) > initial_count:`
ScrollAccepts(after, initial_count) == Len(after) > initial_count

\* scroll once, re-read, re-parse; a WebDriverException keeps the rows
AnnScroll ==
    /\ pc = "ann_scroll"
    /\ \/ LET after == ParseTable(cat, dom) IN
          /\ html' = dom
          /\ rows' = IF ScrollAccepts(after, Len(rows)) THEN after ELSE rows
          /\ retval' = Returned(IF ScrollAccepts(after, Len(rows)) THEN after ELSE rows)
       \/ /\ UNCHANGED <<html, rows>>
          /\ retval' = Returned(rows)
    /\ pc' = "ann_finally"
    /\ UNCHANGED <<config, fetchVars, waiterVars, auxVars, symbol, apiVars, browserVars, tries, navs, dom, artifacts,
                   exc, result>>

\* the message built in `except TimeoutException as e:` names the
\* announcements table and embeds str(e); raised `from e`
AnnTimeoutError(e) == Err("TimeoutException", "ann_timeout", TRUE, e.namesSym, TRUE)

\* except TimeoutException: html = driver.page_source
AnnTimeoutRead ==
    /\ pc = "ann_timeout_read"
    /\ \/ /\ html' = dom
          /\ pc' = "ann_timeout_parse"
          /\ exc' = exc
       \/ /\ html' = html
          /\ exc' = AnnTimeoutError(exc)
          /\ pc' = "ann_except"
    /\ UNCHANGED <<config, fetchVars, waiterVars, auxVars, symbol, apiVars, browserVars, tries, navs, dom, rows, artifacts,
                   retval, result>>

\* a handler that raises the timeout whatever the last parse found
LastChanceReturns_Never(r) == FALSE

\* `if rows and len(rows) > 0:` before `return rows` in the timeout handler
LastChanceReturns(r) == r # <<>>

\* the DOM check (re-reading page_source when the tbody has <tr> elements),
\* then the last parse; rows are returned, otherwise TimeoutException
AnnTimeoutParse ==
    /\ pc = "ann_timeout_parse"
    /\ \E h \in {html} \cup (IF CountTableRows(dom) > 0 THEN {dom} ELSE {}) :
        /\ html' = h
        /\ rows' = ParseTable(cat, h)
        /\ IF LastChanceReturns(ParseTable(cat, h))
           THEN /\ retval' = Returned(ParseTable(cat, h))
                /\ exc' = NoExc
                /\ pc' = "ann_finally"
           ELSE /\ retval' = retval
                /\ exc' = AnnTimeoutError(exc)
                /\ pc' = "ann_except"
    /\ UNCHANGED <<config, fetchVars, waiterVars, auxVars, symbol, apiVars, browserVars, tries, navs, dom, artifacts, result>>

\* except (WebDriverException, TimeoutException) / except Exception:
\* save debug artifacts if `driver` is set, re-raise
AnnExcept ==
    /\ pc = "ann_except"
    /\ artifacts' =
         IF driver = "None" THEN artifacts
         ELSE IF exc.type \in {"WebDriverException", "TimeoutException"}
         THEN Append(artifacts, "selenium_error")
         ELSE Append(artifacts, "unexpected_error")
    /\ pc' = "ann_finally"
    /\ UNCHANGED <<config, fetchVars, waiterVars, auxVars, symbol, apiVars, browserVars, tries, navs, dom, html, rows,
                   exc, retval, result>>

\* finally: if driver: try: driver.quit() except Exception: log
AnnFinally ==
    /\ pc = "ann_finally"
    /\ IF driver = "None"
       THEN UNCHANGED <<quitCalls, quitRaised, browser>>
       ELSE /\ quitCalls' = quitCalls + 1
            /\ \/ /\ browser' = "quit"
                  /\ quitRaised' = quitRaised
               \/ /\ browser' = "unknown"
                  /\ quitRaised' = TRUE
    /\ result' = Outcome(exc, retval)
    /\ pc' = "done"
    /\ UNCHANGED <<config, fetchVars, waiterVars, auxVars, symbol, apiVars, driver, buildCalls, launches, pageVars, exc, retval>>

\* ------------------------------------------------------------ specification
Next ==
    \/ Start
    \/ _init_nse_session
    \/ FetchApi
    \/ _fetch_announcements_api
    \/ ApiAttemptEnd
    \/ FallbackGate
    \/ _build_driver
    \/ PageRender
    \/ NavBase
    \/ NavUrl
    \/ WaitTable
    \/ ReadParse
    \/ Finally
    \/ AnnSetTimeouts
    \/ AnnNavBase
    \/ AnnReadyBase
    \/ AnnNavUrl
    \/ AnnReadyPage
    \/ AnnWaitTable
    \/ AnnWaitTbody
    \/ wait_for_table_rows
    \/ AnnParse
    \/ AnnScroll
    \/ AnnTimeoutRead
    \/ AnnTimeoutParse
    \/ AnnExcept
    \/ AnnFinally

Spec == Init /\ [][Next]_vars

\* ------------------------------------- the fetchers on a decoded payload
\* a 200 response whose body decodes to p
OkJson(p) == [net |-> "ok", status |-> 200, json |-> TRUE, payload |-> p]

\* the session is primed and every GET of the fetcher is answered with the
\* same decoded payload
InitFetch ==
    /\ cat \in Categories
    /\ USE_SELENIUM_FALLBACK \in BOOLEAN
    /\ DISABLE_ANNOUNCEMENTS_SELENIUM \in BOOLEAN
    /\ symbol \in {NormalizeSymbol(s) : s \in RawSymbols}
    /\ pc = "api_request"
    /\ session = "primed"
    /\ RequestInit
    /\ payload \in Payloads
    /\ WaiterInit
    /\ AuxInit

FetchDecoded ==
    /\ pc = "api_request"
    /\ cat # "announcements"
    /\ FetchOne(OkJson(payload))

AnnFetchDecoded ==
    /\ pc = "api_request"
    /\ cat = "announcements"
    /\ AnnFetchOne(OkJson(payload))

NextFetch == FetchDecoded \/ AnnFetchDecoded

SpecFetch == InitFetch /\ [][NextFetch]_vars

TypeOK ==
    /\ cat \in Categories
    /\ pc \in {"start", "api_warmup", "api_request", "api_return", "gate", "build_driver",
               "nav_base", "nav_url", "wait_table", "read_parse", "finally",
               "ann_set_timeouts", "ann_nav_base", "ann_ready_base", "ann_nav_url",
               "ann_ready_page", "ann_wait_table", "ann_wait_tbody", "ann_wait_rows",
               "ann_parse", "ann_scroll", "ann_timeout_read", "ann_timeout_parse",
               "ann_except", "ann_finally", "done"}
    /\ browser \in {"none", "live", "quit", "unknown"}
    /\ driver \in {"None", "set"}
    /\ result.kind \in {"none", "rows", "error"}
    /\ (result.kind # "none") <=> (pc = "done")

\* ------------------------------------ wait_for_table_rows, poll by poll
\* bounds of the waiter's specification: the two timeouts tried, the rows
\* the page reaches, the requests in flight, and how far polls and
\* quiescence rounds are counted
ShortTimeout == 10
LongTimeout == 20
MaxWaitRows == 3
MaxPending == 1
MaxPolls == 5
MaxQuiesced == 2

\* durations in poll intervals (poll = 0.5 s)
PollTicks == 1
RetryTicks == 2
SettleTicks == 4
GraceTicks == 10

WaitTimeouts == {ShortTimeout, LongTimeout}

\* the waiter's positions while it has neither returned nor raised
WaiterActive == {"w_loop", "w_count", "w_source", "w_pending", "w_settled", "w_final",
                 "w_sleep", "w_retry", "w_timeout"}

\* the body rows the announcements page shows; the waiter only counts them
WaiterRow == [n |-> MinCells("announcements"), sym |-> <<" ", "X">>, hrefs |-> <<NoHref, NoHref>>]

WaiterDoms ==
    {NoTable, [hasTable |-> TRUE, hasTbody |-> FALSE, trs |-> <<>>]}
    \cup {[hasTable |-> TRUE, hasTbody |-> TRUE, trs |-> [i \in 1..k |-> WaiterRow]] :
             k \in 0..MaxWaitRows}

\* get_announcements_for_symbol has launched the browser and loaded the
\* announcements page; wait_for_table_rows is about to be called
InitWaiter ==
    /\ cat = "announcements"
    /\ USE_SELENIUM_FALLBACK = TRUE
    /\ DISABLE_ANNOUNCEMENTS_SELENIUM = FALSE
    /\ symbol \in {NormalizeSymbol(s) : s \in RawSymbols}
    /\ pc = "w_start"
    /\ session = "primed"
    /\ apiLog = <<>>
    /\ apiRet = Returned(<<>>)
    /\ driver = "set"
    /\ browser = "live"
    /\ buildCalls = 1
    /\ launches = 1
    /\ quitCalls = 0
    /\ quitRaised = FALSE
    /\ tries = 1
    /\ navs = <<BaseNav, CategoryNav(cat, symbol)>>
    /\ dom \in WaiterDoms
    /\ html = NoTable
    /\ rows = <<>>
    /\ exc = NoExc
    /\ retval = NoRet
    /\ artifacts = <<>>
    /\ result = NoResult
    /\ payload = NoPayload
    /\ timeout \in WaitTimeouts
    /\ now = 0
    /\ end = 0
    /\ last_pending_zero_time = NoTime
    /\ pendingRequests = 0
    /\ injected = FALSE
    /\ polls = 0
    /\ sawRows = FALSE
    /\ sourceFailed = FALSE
    /\ quiesced = 0
    /\ AuxInit

\* what the waiter's steps leave alone
waiterFrame == <<config, fetchVars, auxVars, symbol, apiVars, browserVars, tries, navs, rows, retval,
                 result, timeout>>

\* end = time.time() + timeout; the best-effort injection of the request
\* counter (INJECT_PENDING_REQUESTS does nothing on a page that has it);
\* last_pending_zero_time = None
WaiterStart ==
    /\ pc = "w_start"
    /\ end' = now + timeout
    /\ \/ /\ injected' = TRUE
          /\ pendingRequests' = IF injected THEN pendingRequests ELSE 0
       \/ UNCHANGED <<injected, pendingRequests>>
    /\ last_pending_zero_time' = NoTime
    /\ pc' = "w_loop"
    /\ UNCHANGED <<waiterFrame, now, dom, html, artifacts, exc, polls, sawRows,
                   sourceFailed, quiesced>>

\* the clock of a wait stays below this: the latest deadline and the sleeps
\* of one more turn of the loop
ClockCap == 2 * LongTimeout + GraceTicks

\* a loop that does not look at the clock
LoopContinues_Always(t, deadline) == TRUE

\* while time.time() < end:
LoopContinues(t, deadline) == t < deadline

WaiterLoop ==
    /\ pc = "w_loop"
    /\ now <= ClockCap
    /\ pc' = IF LoopContinues(now, end) THEN "w_count" ELSE "w_timeout"
    /\ UNCHANGED <<waiterFrame, now, end, dom, html, artifacts, exc, last_pending_zero_time,
                   pendingRequests, injected, polls, sawRows, sourceFailed, quiesced>>

\* a poll that wants several rows before it returns
RowsFound_Several(count) == count > 1

\* `if found and count > 0:` where found is rowCount > 0
RowsFound(count) == count > 0

\* a waiter that lets the driver's error out
AfterDriverError_Abort == "w_raised"

\* `except WebDriverException as wde:` inside the loop: on to time.sleep(1.0)
AfterDriverError == "w_retry"

\* the row count of the main poll: the script's answer, a
\* WebDriverException, or an answer int() cannot take
WaiterCount ==
    /\ pc = "w_count"
    /\ \/ LET count == CountTableRows(dom) IN
          /\ polls' = IF polls < MaxPolls THEN polls + 1 ELSE polls
          /\ sawRows' = (sawRows \/ count > 0)
          /\ pc' = IF RowsFound(count) THEN "w_source" ELSE "w_pending"
       \/ /\ pc' = AfterDriverError
          /\ UNCHANGED <<polls, sawRows>>
       \/ /\ pc' = "w_loop"
          /\ UNCHANGED <<polls, sawRows>>
    /\ UNCHANGED <<waiterFrame, now, end, dom, html, artifacts, exc, last_pending_zero_time,
                   pendingRequests, injected, sourceFailed, quiesced>>

\* return driver.page_source; a WebDriverException is caught by the loop
WaiterSource ==
    /\ pc = "w_source"
    /\ \/ /\ html' = dom
          /\ pc' = "w_returned"
          /\ sourceFailed' = sourceFailed
       \/ /\ html' = html
          /\ pc' = AfterDriverError
          /\ sourceFailed' = TRUE
    /\ UNCHANGED <<waiterFrame, now, end, dom, artifacts, exc, last_pending_zero_time,
                   pendingRequests, injected, polls, sawRows, quiesced>>

\* window.__pendingRequests !== undefined ? window.__pendingRequests : -1
ReadPending == IF injected THEN pendingRequests ELSE -1

\* `pending == 0 and last_pending_zero_time and (time.time() - last_pending_zero_time) > 2.0`
Settled(pending, last) == pending = 0 /\ last # NoTime /\ now - last > SettleTicks

\* the pending-request read and the bookkeeping of last_pending_zero_time;
\* a failing read leaves pending None
WaiterPending ==
    /\ pc = "w_pending"
    /\ \/ LET pending == ReadPending
              last == IF pending = 0
                      THEN (IF last_pending_zero_time = NoTime THEN now
                            ELSE last_pending_zero_time)
                      ELSE NoTime IN
          /\ last_pending_zero_time' = last
          /\ pc' = IF Settled(pending, last) THEN "w_settled" ELSE "w_sleep"
          /\ quiesced' = IF Settled(pending, last) /\ quiesced < MaxQuiesced
                         THEN quiesced + 1 ELSE quiesced
       \/ /\ pc' = "w_sleep"
          /\ UNCHANGED <<last_pending_zero_time, quiesced>>
    /\ UNCHANGED <<waiterFrame, now, end, dom, html, artifacts, exc, pendingRequests,
                   injected, polls, sawRows, sourceFailed>>

\* requests settled: count again, return on a row, else time.sleep(5)
WaiterSettled ==
    /\ pc = "w_settled"
    /\ \/ LET count == CountTableRows(dom) IN
          /\ sawRows' = (sawRows \/ count > 0)
          /\ pc' = IF count > 0 THEN "w_source" ELSE "w_final"
          /\ now' = IF count > 0 THEN now ELSE now + GraceTicks
       \/ /\ pc' = AfterDriverError
          /\ UNCHANGED <<now, sawRows>>
       \/ /\ pc' = "w_loop"
          /\ UNCHANGED <<now, sawRows>>
    /\ UNCHANGED <<waiterFrame, end, dom, html, artifacts, exc, last_pending_zero_time,
                   pendingRequests, injected, polls, sourceFailed, quiesced>>

\* a waiter that gives up after the final check
AfterFinalCheck_Break == "w_timeout"

\* "If still no rows, continue waiting until timeout": on to time.sleep(poll)
AfterFinalCheck == "w_sleep"

\* the final check after the extra five seconds
WaiterFinal ==
    /\ pc = "w_final"
    /\ \/ LET count == CountTableRows(dom) IN
          /\ sawRows' = (sawRows \/ count > 0)
          /\ pc' = IF count > 0 THEN "w_source" ELSE AfterFinalCheck
       \/ /\ pc' = AfterDriverError
          /\ sawRows' = sawRows
       \/ /\ pc' = "w_loop"
          /\ sawRows' = sawRows
    /\ UNCHANGED <<waiterFrame, now, end, dom, html, artifacts, exc, last_pending_zero_time,
                   pendingRequests, injected, polls, sourceFailed, quiesced>>

\* time.sleep(poll)
WaiterSleep ==
    /\ pc = "w_sleep"
    /\ now' = now + PollTicks
    /\ pc' = "w_loop"
    /\ UNCHANGED <<waiterFrame, end, dom, html, artifacts, exc, last_pending_zero_time,
                   pendingRequests, injected, polls, sawRows, sourceFailed, quiesced>>

\* except WebDriverException: time.sleep(1.0)
WaiterRetry ==
    /\ pc = "w_retry"
    /\ now' = now + RetryTicks
    /\ pc' = "w_loop"
    /\ UNCHANGED <<waiterFrame, end, dom, html, artifacts, exc, last_pending_zero_time,
                   pendingRequests, injected, polls, sawRows, sourceFailed, quiesced>>

\* timed out: save the artifacts, read current_url, raise TimeoutException
WaiterTimeout ==
    /\ pc = "w_timeout"
    /\ artifacts' = TimeoutArtifacts(artifacts)
    /\ \E urlRead \in BOOLEAN :
          exc' = Err("TimeoutException", "waiter", FALSE, urlRead, FALSE)
    /\ pc' = "w_raised"
    /\ UNCHANGED <<waiterFrame, now, end, dom, html, last_pending_zero_time,
                   pendingRequests, injected, polls, sawRows, sourceFailed, quiesced>>

\* the driver calls of an iteration take time
Elapse ==
    /\ pc \in {"w_count", "w_source", "w_pending", "w_settled", "w_final"}
    /\ now < end
    /\ now' = now + 1
    /\ UNCHANGED <<waiterFrame, pc, end, dom, html, artifacts, exc, last_pending_zero_time,
                   pendingRequests, injected, polls, sawRows, sourceFailed, quiesced>>

\* the page starts and finishes fetch/XHR requests
NetActivity ==
    /\ pc \in WaiterActive
    /\ injected
    /\ \E n \in 0..MaxPending :
          /\ n # pendingRequests
          /\ pendingRequests' = n
    /\ UNCHANGED <<waiterFrame, pc, now, end, dom, html, artifacts, exc,
                   last_pending_zero_time, injected, polls, sawRows, sourceFailed, quiesced>>

\* the page renders while the waiter polls
WaiterPageRender ==
    /\ pc \in WaiterActive
    /\ \/ /\ ~dom.hasTable
          /\ dom' = [dom EXCEPT !.hasTable = TRUE]
       \/ /\ dom.hasTable /\ ~dom.hasTbody
          /\ dom' = [dom EXCEPT !.hasTbody = TRUE]
       \/ /\ dom.hasTable /\ dom.hasTbody /\ Len(dom.trs) < MaxWaitRows
          /\ dom' = [dom EXCEPT !.trs = Append(@, WaiterRow)]
       \/ /\ dom.trs # <<>>
          /\ dom' = [dom EXCEPT !.trs = <<>>]
    /\ UNCHANGED <<waiterFrame, pc, now, end, html, artifacts, exc, last_pending_zero_time,
                   pendingRequests, injected, polls, sawRows, sourceFailed, quiesced>>

NextWaiter ==
    \/ WaiterStart
    \/ WaiterLoop
    \/ WaiterCount
    \/ WaiterSource
    \/ WaiterPending
    \/ WaiterSettled
    \/ WaiterFinal
    \/ WaiterSleep
    \/ WaiterRetry
    \/ WaiterTimeout
    \/ Elapse
    \/ NetActivity
    \/ WaiterPageRender

SpecWaiter == InitWaiter /\ [][NextWaiter]_vars

\* a call of wait_for_table_rows with the shorter timeout
InitWaiterFair == InitWaiter /\ timeout = ShortTimeout

\* the steps of wait_for_table_rows itself
WaiterStep ==
    \/ WaiterStart
    \/ WaiterLoop
    \/ WaiterCount
    \/ WaiterSource
    \/ WaiterPending
    \/ WaiterSettled
    \/ WaiterFinal
    \/ WaiterSleep
    \/ WaiterRetry
    \/ WaiterTimeout

\* the call keeps running (every driver call and every sleep comes back), and
\* the wall clock read by time.time() moves on while the driver is called,
\* also in the turns of the loop that end in `except Exception: pass`
\* without a sleep
SpecWaiterFair ==
    /\ InitWaiterFair
    /\ [][NextWaiter]_vars
    /\ WF_vars(WaiterStep)
    /\ SF_vars(Elapse)

\* ------------------------------------------- requests served at the same time
\* the server runs each request in a worker of its own; a request is a call
\* of a get_*_for_symbol function
NumRequests == 2
Requests == 1..NumRequests

\* `session` / `driver` before their assignment
NoHandle == 0

\* the orchestrator variables stand still: the calls are followed by what
\* they create and use
Parked ==
    /\ cat = "announcements"
    /\ USE_SELENIUM_FALLBACK = TRUE
    /\ DISABLE_ANNOUNCEMENTS_SELENIUM = FALSE
    /\ symbol \in {NormalizeSymbol(t) : t \in RawSymbols}
    /\ session = "none"
    /\ RequestInit
    /\ payload = NoPayload
    /\ WaiterInit

parkedVars == <<config, fetchVars, waiterVars, symbol, pc, apiVars, browserVars, pageVars,
                exc, retval, result>>

InitConc ==
    /\ Parked
    /\ pc = "concurrent"
    /\ pickCall = NoCall
    /\ picked = NoPick
    /\ reqPc = [r \in Requests |-> "session"]
    /\ sessionOf = [r \in Requests |-> NoHandle]
    /\ driverOf = [r \in Requests |-> NoHandle]
    /\ created = <<>>
    /\ ops = {}
    /\ wrappers = 0
    /\ inflight = <<>>
    /\ injections = 0
    /\ listeners = <<>>
    /\ captures = <<>>

concFrame == <<parkedVars, pickVars, scriptVars, captureVars>>

\* `session` is a local variable of _init_nse_session and of the fetcher
SessionSlot(r) == r

\* a driver kept in one module-level variable
DriverSlot_Module(r) == 1

\* `driver` is a local variable of the orchestrator call
DriverSlot(r) == r

Use(r, h, op) == [by |-> r, handle |-> h, op |-> op]

\* session = requests.Session(); session.get(NSE_BASE_URL); the warm-up may fail
ConcInitSession(r) ==
    /\ reqPc[r] = "session"
    /\ LET h == Len(created) + 1 IN
       /\ created' = Append(created, [kind |-> "session", by |-> r])
       /\ sessionOf' = [sessionOf EXCEPT ![SessionSlot(r)] = h]
       /\ ops' = ops \cup {Use(r, h, "get")}
    /\ \E next \in {"api", "launch"} : reqPc' = [reqPc EXCEPT ![r] = next]
    /\ UNCHANGED <<concFrame, driverOf>>

\* session.get(<API URL>): rows end the request, anything else falls back
ConcApiRequest(r) ==
    /\ reqPc[r] = "api"
    /\ ops' = ops \cup {Use(r, sessionOf[SessionSlot(r)], "get")}
    /\ \E next \in {"done", "launch"} : reqPc' = [reqPc EXCEPT ![r] = next]
    /\ UNCHANGED <<concFrame, sessionOf, driverOf, created>>

\* driver = _build_driver(headless=headless)
ConcLaunch(r) ==
    /\ reqPc[r] = "launch"
    /\ \/ LET h == Len(created) + 1 IN
          /\ created' = Append(created, [kind |-> "browser", by |-> r])
          /\ driverOf' = [driverOf EXCEPT ![DriverSlot(r)] = h]
          /\ reqPc' = [reqPc EXCEPT ![r] = "navigate"]
       \/ /\ reqPc' = [reqPc EXCEPT ![r] = "done"]
          /\ UNCHANGED <<created, driverOf>>
    /\ UNCHANGED <<concFrame, sessionOf, ops>>

\* driver.get(...): the two navigations
ConcNavigate(r) ==
    /\ reqPc[r] = "navigate"
    /\ ops' = ops \cup {Use(r, driverOf[DriverSlot(r)], "get")}
    /\ \E next \in {"read", "quit"} : reqPc' = [reqPc EXCEPT ![r] = next]
    /\ UNCHANGED <<concFrame, sessionOf, driverOf, created>>

\* the waits and driver.page_source
ConcRead(r) ==
    /\ reqPc[r] = "read"
    /\ ops' = ops \cup {Use(r, driverOf[DriverSlot(r)], "page_source")}
    /\ reqPc' = [reqPc EXCEPT ![r] = "quit"]
    /\ UNCHANGED <<concFrame, sessionOf, driverOf, created>>

\* finally: driver.quit()
ConcQuit(r) ==
    /\ reqPc[r] = "quit"
    /\ ops' = ops \cup {Use(r, driverOf[DriverSlot(r)], "quit")}
    /\ reqPc' = [reqPc EXCEPT ![r] = "done"]
    /\ UNCHANGED <<concFrame, sessionOf, driverOf, created>>

NextConc ==
    \E r \in Requests :
        \/ ConcInitSession(r)
        \/ ConcApiRequest(r)
        \/ ConcLaunch(r)
        \/ ConcNavigate(r)
        \/ ConcRead(r)
        \/ ConcQuit(r)

SpecConc == InitConc /\ [][NextConc]_vars

\* ------------------------------------------- the page script, step by step
\* INJECT_PENDING_REQUESTS and the page it runs in: the page issues fetch
\* calls and XHR sends, they complete, and the script is executed again
MaxInjections == 2
MaxInflight == 2
MaxSends == 2
NumXhrs == 2

\* the XMLHttpRequest objects the page keeps and sends again
Xhrs == 1..NumXhrs

\* Math.max(0, window.__pendingRequests - 1), k times
RECURSIVE Decrement(_, _)
Decrement(n, k) ==
    IF k = 0 THEN n
    ELSE Decrement(IF n - 1 > 0 THEN n - 1 ELSE 0, k - 1)

Remove(seq, i) == SubSeq(seq, 1, i - 1) \o SubSeq(seq, i + 1, Len(seq))

InitInject ==
    /\ Parked
    /\ pc = "page"
    /\ pickCall = NoCall
    /\ picked = NoPick
    /\ reqPc = <<>>
    /\ sessionOf = <<>>
    /\ driverOf = <<>>
    /\ created = <<>>
    /\ ops = {}
    /\ wrappers = 0
    /\ inflight = <<>>
    /\ injections = 0
    /\ listeners = [x \in Xhrs |-> 0]
    /\ captures = <<>>

injectFrame == <<config, fetchVars, pickVars, concVars, captureVars, symbol, pc, apiVars, browserVars,
                 pageVars, exc, retval, result, clockVars, last_pending_zero_time, polls,
                 sawRows, sourceFailed, quiesced>>

\* driver.execute_script(INJECT_PENDING_REQUESTS): the body runs only when
\* the flag is not set; it sets the flag, zeroes the counter and wraps
\* window.fetch and XMLHttpRequest.prototype.send once more
Inject ==
    /\ injections < MaxInjections
    /\ injections' = injections + 1
    /\ IF ~injected
       THEN /\ injected' = TRUE
            /\ pendingRequests' = 0
            /\ wrappers' = wrappers + 1
       ELSE UNCHANGED <<injected, pendingRequests, wrappers>>
    /\ UNCHANGED <<injectFrame, inflight, listeners>>

\* window.fetch(...): every layer of wrapping counts the call and chains a
\* .finally callback of its own
FetchStart ==
    /\ Len(inflight) < MaxInflight
    /\ pendingRequests' = pendingRequests + wrappers
    /\ inflight' = Append(inflight, [kind |-> "fetch", obj |-> 0, callbacks |-> wrappers,
                                      counted |-> wrappers > 0])
    /\ UNCHANGED <<injectFrame, injected, wrappers, injections, listeners>>

\* xhr.send(...): every layer counts the call and adds a readystatechange
\* listener to the object, which keeps the listeners of its earlier sends
XhrSend(x) ==
    /\ Len(inflight) < MaxInflight
    /\ \A i \in DOMAIN inflight : inflight[i].obj # x
    /\ listeners[x] < MaxSends
    /\ pendingRequests' = pendingRequests + wrappers
    /\ listeners' = [listeners EXCEPT ![x] = @ + wrappers]
    /\ inflight' = Append(inflight, [kind |-> "xhr", obj |-> x, callbacks |-> 0,
                                      counted |-> wrappers > 0])
    /\ UNCHANGED <<injectFrame, injected, wrappers, injections>>

\* a request completes: a fetch runs its .finally callbacks, an XHR reaches
\* readyState 4 and every listener on the object runs
Complete(i) ==
    /\ i \in DOMAIN inflight
    /\ LET req == inflight[i]
           k == IF req.kind = "fetch" THEN req.callbacks ELSE listeners[req.obj]
       IN pendingRequests' = Decrement(pendingRequests, k)
    /\ inflight' = Remove(inflight, i)
    /\ UNCHANGED <<injectFrame, injected, wrappers, injections, listeners>>

NextInject ==
    \/ Inject
    \/ FetchStart
    \/ \E x \in Xhrs : XhrSend(x)
    \/ \E i \in 1..MaxInflight : Complete(i)

SpecInject == InitInject /\ [][NextInject]_vars

\* ------------------------------------------------------- one call of _pick
MaxKeys == 2

\* the keys a record may carry and a caller may ask for
PickKeys == {"symbol", "SYMBOL", "sm_symbol"}
RecordKeys == {"symbol", "SYMBOL"}

\* JSON null, the empty string, blanks only, text with and without blanks
PickVals == {NoneVal, TextVal(<<>>), TextVal(<<" ">>), TextVal(<<" ", "x", " ">>),
             TextVal(<<"T">>)}

PickRecords == UNION {[D -> PickVals] : D \in SUBSET RecordKeys}

PickCalls == [item : PickRecords, keys : SeqsUpTo(PickKeys, MaxKeys),
              default : {<<>>, <<" ", "t">>}]

InitPick ==
    /\ Parked
    /\ pc = "pick_call"
    /\ pickCall \in PickCalls
    /\ picked = NoPick
    /\ reqPc = <<>>
    /\ sessionOf = <<>>
    /\ driverOf = <<>>
    /\ created = <<>>
    /\ ops = {}
    /\ wrappers = 0
    /\ inflight = <<>>
    /\ injections = 0
    /\ listeners = <<>>
    /\ captures = <<>>

Pick ==
    /\ pc = "pick_call"
    /\ picked' = [done |-> TRUE,
                  text |-> _pick(pickCall.item, pickCall.keys, pickCall.default)]
    /\ pc' = "pick_done"
    /\ UNCHANGED <<config, fetchVars, waiterVars, concVars, scriptVars, captureVars, pickCall, symbol,
                   apiVars, browserVars, pageVars, exc, retval, result>>

NextPick == Pick

SpecPick == InitPick /\ [][NextPick]_vars

\* ------------------------------------------------ one call of a table parser
MaxParseRows == 2

\* the body rows a page may hold: one cell short, the minimum, one cell more;
\* first cell empty, padded or plain; link cells without anchor, with a path
\* on the origin, with a fully-qualified URL
ParseTRs(c) ==
    [n : {MinCells(c) - 1, MinCells(c), MinCells(c) + 1},
     sym : {<<>>, <<" ", "X">>, <<"T">>},
     hrefs : {<<NoHref, NoHref>>, <<RelHref, AbsHref>>, <<AbsHref, RelHref>>}]

ParseDoms(c) ==
    {NoTable, [hasTable |-> TRUE, hasTbody |-> FALSE, trs |-> <<>>]}
    \cup {[hasTable |-> TRUE, hasTbody |-> TRUE, trs |-> t] :
             t \in SeqsUpTo(ParseTRs(c), MaxParseRows)}

\* an orchestrator has read the page source and hands it to its parser
InitParse ==
    /\ cat \in Categories
    /\ USE_SELENIUM_FALLBACK = TRUE
    /\ DISABLE_ANNOUNCEMENTS_SELENIUM = FALSE
    /\ symbol \in {NormalizeSymbol(t) : t \in RawSymbols}
    /\ pc = "parse"
    /\ session = "none"
    /\ apiLog = <<>>
    /\ apiRet = NoRet
    /\ driver = "set"
    /\ browser = "live"
    /\ buildCalls = 1
    /\ launches = 1
    /\ quitCalls = 0
    /\ quitRaised = FALSE
    /\ tries = 1
    /\ navs = <<BaseNav, CategoryNav(cat, symbol)>>
    /\ html \in ParseDoms(cat)
    /\ dom = html
    /\ rows = <<>>
    /\ exc = NoExc
    /\ retval = NoRet
    /\ artifacts = <<>>
    /\ result = NoResult
    /\ payload = NoPayload
    /\ WaiterInit
    /\ AuxInit

\* rows = _parse_<category>_table(html)
Parse ==
    /\ pc = "parse"
    /\ rows' = ParseTable(cat, html)
    /\ pc' = "parsed"
    /\ UNCHANGED <<config, fetchVars, waiterVars, auxVars, symbol, apiVars, browserVars,
                   tries, navs, dom, html, artifacts, exc, retval, result>>

NextParse == Parse

SpecParse == InitParse /\ [][NextParse]_vars

\* ------------------------------------- the announcements page, from the wait
\* get_announcements_for_symbol has launched the browser and loaded the
\* announcements page after an API attempt without rows; what follows is the
\* row wait, the parse, the scroll, the handlers and the finally clause
InitAnnPage ==
    /\ cat = "announcements"
    /\ USE_SELENIUM_FALLBACK = TRUE
    /\ DISABLE_ANNOUNCEMENTS_SELENIUM \in BOOLEAN
    /\ symbol \in {NormalizeSymbol(t) : t \in RawSymbols}
    /\ pc = "ann_wait_rows"
    /\ session = "primed"
    /\ apiLog = <<>>
    /\ apiRet = Returned(<<>>)
    /\ driver = "set"
    /\ browser = "live"
    /\ buildCalls = 1
    /\ launches = 1
    /\ quitCalls = 0
    /\ quitRaised = FALSE
    /\ tries = 1
    /\ navs = <<BaseNav, CategoryNav(cat, symbol)>>
    /\ dom \in Doms(cat)
    /\ html = NoTable
    /\ rows = <<>>
    /\ exc = NoExc
    /\ retval = NoRet
    /\ artifacts = <<>>
    /\ result = NoResult
    /\ payload = NoPayload
    /\ WaiterInit
    /\ AuxInit

NextAnnPage ==
    \/ PageRender
    \/ wait_for_table_rows
    \/ AnnParse
    \/ AnnScroll
    \/ AnnTimeoutRead
    \/ AnnTimeoutParse
    \/ AnnExcept
    \/ AnnFinally

SpecAnnPage == InitAnnPage /\ [][NextAnnPage]_vars

\* ------------------------------------------------- the files of the captures
\* announcements requests of one process reach their timeout and their
\* error handlers while the wall clock runs; the clock counts half seconds
MaxTicks == 3
TicksPerSecond == 2

\* DEBUG_DIR = os.path.join(os.getcwd(), "scrape_debug"), one per process
DEBUG_DIR == "scrape_debug"

\* ts = int(time.time())
Stamp(t) == t \div TicksPerSecond

\* os.path.join(DEBUG_DIR, f"{prefix}_{ts}" + ext)
ArtifactFile(prefix, t, ext) == <<DEBUG_DIR, prefix, Stamp(t), ext>>

\* _save_debug_artifacts(driver, prefix): the screenshot and the HTML file
Capture(r, prefix) ==
    [by |-> r,
     screenshot |-> ArtifactFile(prefix, now, ".png"),
     htmlfile |-> ArtifactFile(prefix, now, ".html")]

InitCapture ==
    /\ Parked
    /\ pc = "capturing"
    /\ pickCall = NoCall
    /\ picked = NoPick
    /\ reqPc = [r \in Requests |-> "waiting"]
    /\ sessionOf = <<>>
    /\ driverOf = <<>>
    /\ created = <<>>
    /\ ops = {}
    /\ wrappers = 0
    /\ inflight = <<>>
    /\ injections = 0
    /\ listeners = <<>>
    /\ captures = <<>>

captureFrame == <<config, fetchVars, pickVars, scriptVars, symbol, pc, apiVars, browserVars,
                  pageVars, exc, retval, result, timeout, end, last_pending_zero_time,
                  pendingRequests, injected, polls, sawRows, sourceFailed, quiesced,
                  sessionOf, driverOf, created, ops>>

\* wait_for_table_rows runs out of time: it saves the artifacts and raises;
\* the last-chance parse returns rows or the timeout goes on to the handlers
WaitTimesOut(r) ==
    /\ reqPc[r] = "waiting"
    /\ captures' = Append(captures, Capture(r, "wait_for_table_timeout"))
    /\ \E next \in {"handling", "done"} : reqPc' = [reqPc EXCEPT ![r] = next]
    /\ UNCHANGED <<captureFrame, now>>

\* the request leaves the try without a timeout of the waiter: with rows, or
\* with an exception of a navigation, a wait or the parse
WaitEndsOtherwise(r) ==
    /\ reqPc[r] = "waiting"
    /\ \E next \in {"handling", "done"} : reqPc' = [reqPc EXCEPT ![r] = next]
    /\ UNCHANGED <<captureFrame, now, captures>>

\* except (WebDriverException, TimeoutException) / except Exception, with
\* `driver` set: _save_debug_artifacts, then raise
HandlerSaves(r) ==
    /\ reqPc[r] = "handling"
    /\ \E prefix \in {"selenium_error", "unexpected_error"} :
          captures' = Append(captures, Capture(r, prefix))
    /\ reqPc' = [reqPc EXCEPT ![r] = "done"]
    /\ UNCHANGED <<captureFrame, now>>

\* half a second passes
ClockTick ==
    /\ now < MaxTicks
    /\ now' = now + 1
    /\ UNCHANGED <<captureFrame, reqPc, captures>>

NextCapture ==
    \/ \E r \in Requests : WaitTimesOut(r) \/ WaitEndsOtherwise(r) \/ HandlerSaves(r)
    \/ ClockTick

SpecCapture == InitCapture /\ [][NextCapture]_vars

\* ------------------------------------------------------------------ claims
ApiErrorSources == {"api", "warmup"}

\* C1: once a browser instance has been launched for a request, it has been
\* quit before the request returns or raises, on every exit path, including
\* a failure inside the launch routine after the browser was created.
C1_BrowserQuitOnEveryExit ==
    (pc = "done" /\ launches > 0) => quitCalls >= 1

\* C2: if the category's API fetcher returns a non-empty row list, the
\* orchestrator returns exactly that list and no browser is ever launched.
C2_ApiRowsReturnedWithoutBrowser ==
    (apiRet.kind = "return" /\ apiRet.rows # <<>>) =>
        /\ buildCalls = 0
        /\ launches = 0
        /\ browser = "none"
        /\ pc \in {"api_return", "done"}
        /\ (pc = "done" => result = RowsResult(apiRet.rows))

C2_Witness ==
    /\ pc = "done"
    /\ cat = "board_meetings"
    /\ apiRet.kind = "return"
    /\ Len(apiRet.rows) = 2
    /\ result.kind = "rows"

\* C3 as stated: an exception raised in the API attempt is never propagated
\* to the caller and the orchestrator always moves on to the fallback stage
\* (the browser attempt).
C3_ApiErrorAlwaysFallsBack ==
    (pc = "done" /\ apiRet.kind = "raise") =>
        /\ ~(result.kind = "error" /\ result.err.src \in ApiErrorSources)
        /\ buildCalls >= 1

\* C3 amended: an exception raised in the API attempt is never propagated to
\* the caller; the orchestrator moves on to the browser attempt when
\* USE_SELENIUM_FALLBACK is on, and otherwise raises its own RuntimeError
\* without starting a browser.
C3_ApiErrorSwallowed ==
    (apiRet.kind = "raise" /\ pc \notin {"api_return", "gate"}) =>
        /\ ~(result.kind = "error" /\ result.err.src \in ApiErrorSources)
        /\ USE_SELENIUM_FALLBACK => (pc = "build_driver" \/ buildCalls = 1)
        /\ ~USE_SELENIUM_FALLBACK =>
             /\ buildCalls = 0
             /\ pc = "done"
             /\ result.kind = "error"
             /\ result.err.type = "RuntimeError"
             /\ result.err.src = "fallback_disabled"

C3_Witness ==
    /\ apiRet.kind = "raise"
    /\ apiRet.err.type = "HTTPError"
    /\ apiRet.err.src = "api"
    /\ buildCalls = 1
    /\ browser = "live"

\* C4: releasing the browser handle never raises to the caller: when
\* driver.quit() fails the caller still sees the request's own result or
\* own error.
C4_QuitFailureNotRaised ==
    (pc = "done" /\ quitRaised) =>
        /\ ~(result.kind = "error" /\ result.err.src = "quit")
        /\ result = Outcome(exc, retval)

\* C5: when the API attempt yields no rows and the loaded fallback page has
\* no table with the category's id, the orchestrator returns an empty list
\* and raises no error (no driver failure being involved).
C5_NoTableGivesEmptyList ==
    (/\ pc = "done"
     /\ Len(navs) = 2
     /\ ~dom.hasTable
     /\ ~quitRaised
     /\ exc.type # "WebDriverException") =>
        result = RowsResult(<<>>)

\* C6: a request that does not return a row list ends in a failure that
\* names the category and the symbol and wraps the underlying cause.
C6_FailureIsAttributed ==
    (pc = "done" /\ result.kind = "error") =>
        /\ result.err.namesCat
        /\ result.err.namesSym
        /\ result.err.wraps

\* C7: with DISABLE_ANNOUNCEMENTS_SELENIUM set, get_announcements_for_symbol
\* never launches a browser, whatever the API attempt returned.
C7_AnnouncementsToggleBlocksBrowser ==
    (cat = "announcements" /\ DISABLE_ANNOUNCEMENTS_SELENIUM) =>
        /\ buildCalls = 0
        /\ launches = 0

C8_Case ==
    /\ cat = "announcements"
    /\ Len(apiLog) = 3
    /\ apiLog[1].kind # "rows"
    /\ apiLog[2].kind # "rows"
    /\ apiLog[3].kind = "rows"

\* C8: in get_announcements_for_symbol, when the first two type-label
\* variants yield no items and the third yields items, the rows built from
\* the third variant's items are returned and no browser is launched.
C8_ThirdVariantRowsWithoutBrowser ==
    C8_Case =>
        /\ apiRet = Returned(apiLog[3].rows)
        /\ buildCalls = 0
        /\ launches = 0
        /\ pc \in {"api_return", "done"}
        /\ (pc = "done" => result = RowsResult(apiLog[3].rows))

C8_Witness ==
    /\ C8_Case
    /\ apiLog[1].kind = "empty"
    /\ apiLog[2].kind = "empty"
    /\ pc = "done"
    /\ Len(result.rows) = 1

FetcherFinished == pc \notin {"start", "api_warmup", "api_request"}

\* C9: _fetch_announcements_api sends its requests in the order
\* "Announcement", "Corporate Announcement", "Announcements"; it returns the
\* rows of the first variant whose response has items and sends no later
\* request; if no variant yields items it returns [] without raising.
C9_AnnouncementVariantsInOrder ==
    cat = "announcements" =>
        /\ Len(apiLog) <= 3
        /\ \A i \in 1..Len(apiLog) :
            /\ apiLog[i].url = CORP_FILING_API
            /\ apiLog[i].type =
                 <<"Announcement", "Corporate Announcement", "Announcements">>[i]
            /\ apiLog[i].kind = "rows" =>
                 /\ i = Len(apiLog)
                 /\ pc # "api_request"
                 /\ apiRet = Returned(apiLog[i].rows)
        /\ (/\ FetcherFinished
            /\ session = "primed"
            /\ \A i \in 1..Len(apiLog) : apiLog[i].kind # "rows") =>
                /\ Len(apiLog) = 3
                /\ apiRet = Returned(<<>>)

C9_Witness ==
    /\ cat = "announcements"
    /\ FetcherFinished
    /\ Len(apiLog) = 2
    /\ apiLog[1].kind = "status"
    /\ apiLog[2].kind = "rows"
    /\ apiRet.kind = "return"
    /\ Len(apiRet.rows) = 2

\* C10: each API fetcher fails with an error whenever its API request ends
\* in a network error or a non-2xx status; the announcements fetcher does
\* not turn such a failure into an empty-list success.
C10_FetcherFailsOnRequestError ==
    (/\ apiRet.kind # "none"
     /\ \E i \in 1..Len(apiLog) : apiLog[i].kind \in {"neterr", "status"}) =>
        apiRet.kind = "raise"


\* C11: each API fetcher returns an empty list, without raising, whenever the
\* decoded payload's item collection is empty or absent: an object whose
\* `data` is an empty list (and no `rows` list), an object with neither
\* `data` nor `rows`, and the empty object all give [].
C11_EmptyCollectionGivesEmptyList ==
    (/\ pc = "api_return"
     /\ payload.shape = "dict"
     /\ \/ payload.data = ListField(<<>>) /\ payload.rows.f \in {"absent", "null"}
        \/ payload.data.f = "absent" /\ payload.rows.f = "absent")
    => apiRet = Returned(<<>>)

\* C12: each API fetcher takes its items from `data` if that field is
\* non-null, so a non-null but empty `data` list is the chosen collection and
\* a `rows` list next to it is not consulted: the rows returned are those
\* built from `data`.
C12_DataChosenWhenNonNull ==
    (/\ pc = "api_return"
     /\ payload.shape = "dict"
     /\ payload.data.f = "list" /\ AllDicts(payload.data.list)
     /\ payload.rows.f = "list" /\ payload.rows.list # <<>> /\ AllDicts(payload.rows.list))
    => apiRet = Returned(BuildRows(cat, payload.data.list, symbol))


\* C13: wait_for_table_rows returns the page HTML, and raises no timeout,
\* whenever a poll before the deadline finds the table's row count above
\* zero: once a count was above zero (and the page source could be read) the
\* waiter is reading the page source or has returned it, with no artifacts
\* saved and no exception raised.
C13_RowsSeenMeansReturned ==
    (sawRows /\ ~sourceFailed)
    => /\ pc \in {"w_source", "w_returned"}
       /\ artifacts = <<>>
       /\ exc = NoExc

\* a table that reaches 3 rows after 4 polls, timeout = 10 poll intervals
C13_Witness ==
    /\ pc = "w_returned"
    /\ timeout = ShortTimeout
    /\ polls = 5
    /\ Len(html.trs) = 3
    /\ now < end
    /\ ~sourceFailed

\* C14: when the table never has a row and the timeout expires, one call of
\* wait_for_table_rows raises the timeout error and saves the diagnostic
\* artifacts exactly once: a call that raised has saved them once, a call
\* that has not raised has saved none, and a call returns only after a count
\* above zero.
C14_TimeoutSavesArtifactsOnce ==
    /\ pc = "w_raised" => (artifacts = <<"wait_for_table_timeout">>
                            /\ exc.type = "TimeoutException")
    /\ pc # "w_raised" => artifacts = <<>>
    /\ pc = "w_returned" => sawRows

C14_Witness ==
    /\ pc = "w_raised"
    /\ ~sawRows
    /\ CountTableRows(dom) = 0
    /\ Len(artifacts) = 1

WaitTimedOut == artifacts # <<>> /\ artifacts[1] = "wait_for_table_timeout"

\* C16: when the render wait for announcements times out, the page HTML is
\* parsed one last time: if that parse yields a row the request returns those
\* rows, and the timeout error is raised only if it yields none.
C16_LastChanceParseDecides ==
    (pc = "done" /\ WaitTimedOut) =>
        IF ParseTable(cat, html) # <<>>
        THEN result = RowsResult(ParseTable(cat, html))
        ELSE /\ result.kind = "error"
             /\ result.err.type = "TimeoutException"
             /\ result.err.src = "ann_timeout"

\* rows recovered by the last parse after the wait timed out
C16_Witness ==
    /\ pc = "done"
    /\ WaitTimedOut
    /\ result.kind = "rows"
    /\ result.rows # <<>>

\* C17: in the announcements browser path the scroll-triggered re-check
\* replaces the parsed rows only if it yields strictly more rows; otherwise,
\* and when the scroll raises a driver error, the rows parsed before the
\* scroll are returned, so the returned count is never below that count.
C17_ScrollNeverLosesRows ==
    [][(pc = "ann_scroll" /\ pc' # "ann_scroll") =>
          /\ retval'.kind = "return"
          /\ retval'.rows = rows \/ Len(retval'.rows) > Len(rows)
          /\ Len(retval'.rows) >= Len(rows)]_vars

\* the page read after the scroll had fewer rows than the request returns
C17_Witness ==
    /\ pc = "ann_finally"
    /\ retval.kind = "return"
    /\ Len(ParseTable(cat, html)) < Len(retval.rows)

\* C18: at most one browser instance is launched per request: after a launch
\* failure, a navigation failure or a wait timeout no second instance is
\* started, in any category.
C18_AtMostOneBrowser ==
    /\ buildCalls <= 1
    /\ launches <= 1

\* a request that failed in the browser after its one launch
C18_Witness ==
    /\ pc = "done"
    /\ launches = 1
    /\ buildCalls = 1
    /\ result.kind = "error"
    /\ result.err.src \in {"launch", "nav_base", "nav_url", "wait_table", "ann_timeout"}

\* C19: in the browser path of every category the rendered HTML is parsed
\* only after the waiter has seen a data row in the table or has timed out:
\* no category parses a page whose table has zero rows merely because the
\* table element is present.
C19_ParsedOnlyAfterRowsSeen ==
    (retval.kind = "return" /\ CountTableRows(html) = 0) => (sawRows \/ WaitTimedOut)

\* C20: in the browser path of every category the origin root is loaded
\* before the category URL, which carries the normalized symbol as its query
\* parameter, and the page HTML is read only after the category navigation.
C20_BaseThenCategoryThenRead ==
    /\ Len(navs) <= 2
    /\ Len(navs) >= 1 => navs[1] = [url |-> NSE_BASE_URL, symbol |-> <<>>]
    /\ Len(navs) = 2 => /\ navs[2] = [url |-> CategoryUrl(cat), symbol |-> symbol]
                        /\ symbol = UpperText(Strip(symbol))
                        /\ symbol # <<>>
    /\ (html # NoTable \/ rows # <<>> \/ retval.kind = "return") => Len(navs) = 2

\* rows returned from the page the two navigations loaded
C20_Witness ==
    /\ pc = "done"
    /\ Len(navs) = 2
    /\ html # NoTable
    /\ result.kind = "rows"
    /\ result.rows # <<>>


\* C21: in every API fetcher the warm-up request to the origin root comes
\* before any category API request, and when the warm-up ends in a network
\* error or an error status the fetcher fails without sending an API request.
C21_WarmupBeforeApiRequest ==
    /\ apiLog # <<>> => session = "primed"
    /\ pc = "api_request" => session = "primed"
    /\ (apiRet.kind = "raise" /\ apiRet.err.src = "warmup") =>
          /\ apiLog = <<>>
          /\ session = "none"
          /\ apiRet.err.type \in {"ConnectionError", "HTTPError"}

\* a fetcher that failed in its warm-up
C21_Witness ==
    /\ pc = "api_return"
    /\ apiRet.kind = "raise"
    /\ apiRet.err.src = "warmup"
    /\ apiLog = <<>>


\* C22: the row list an orchestrator returns comes from exactly one source:
\* either the API rows, with no browser involved, or, the API having yielded
\* no rows, exactly the rows parsed from the fallback page (for announcements
\* the rows of the first parse when the scroll re-check did not bring more).
C22_RowsFromOneSource ==
    (pc = "done" /\ result.kind = "rows") =>
        IF buildCalls = 0
        THEN /\ apiRet.kind = "return"
             /\ result.rows = apiRet.rows
             /\ html = NoTable
        ELSE /\ apiRet.rows = <<>>
             /\ result.rows = rows
             /\ \/ result.rows = ParseTable(cat, html)
                \/ cat = "announcements" /\ Len(ParseTable(cat, html)) <= Len(result.rows)

\* the API returned an empty list, the page held two valid rows
C22_Witness ==
    /\ pc = "done"
    /\ buildCalls = 1
    /\ apiRet = Returned(<<>>)
    /\ Len(result.rows) = 2
    /\ result.rows = ParseTable(cat, html)


\* C23: for any interleaving of two concurrent requests, each request uses
\* its own HTTP session and its own browser instance: every use of a session
\* or browser is by the request that created it, and no two requests hold
\* the same handle.
C23_NoSharedSessionOrBrowser ==
    /\ \A o \in ops : o.handle # NoHandle /\ created[o.handle].by = o.by
    /\ \A r1, r2 \in Requests :
          r1 # r2 => /\ sessionOf[r1] = NoHandle \/ sessionOf[r1] # sessionOf[r2]
                     /\ driverOf[r1] = NoHandle \/ driverOf[r1] # driverOf[r2]

\* both requests launched a browser of their own, used it and quit it
C23_Witness ==
    /\ \A r \in Requests : reqPc[r] = "done"
    /\ \E h1, h2 \in DOMAIN created :
          /\ created[h1].kind = "browser" /\ created[h2].kind = "browser"
          /\ created[h1].by # created[h2].by
          /\ Use(created[h1].by, h1, "quit") \in ops
          /\ Use(created[h2].by, h2, "quit") \in ops


\* C24: injecting the network-instrumentation script into a page that
\* already carries it is a no-op (fetch / XHR are not wrapped a second time,
\* the pending-request counter is not reset), and each start and each
\* completion of a request of the instrumented page changes the counter by
\* exactly one, however many times the script was injected.
C24_InjectionIdempotent ==
    [][ /\ (injected /\ injections' = injections + 1) =>
              /\ wrappers' = wrappers
              /\ pendingRequests' = pendingRequests
        /\ (injected /\ Len(inflight') = Len(inflight) + 1) =>
              pendingRequests' = pendingRequests + 1
        /\ \A i \in DOMAIN inflight :
              (injected /\ inflight[i].counted /\ inflight' = Remove(inflight, i)) =>
                  pendingRequests' = pendingRequests - 1 ]_vars


\* C25: every invocation of wait_for_table_rows eventually ends, returning
\* HTML or raising the timeout error, whatever the page and the driver do:
\* rows never appearing, the pending-request count staying at zero or staying
\* positive, every script evaluation raising an error.
C25_WaitEventuallyEnds == <>(pc \in {"w_returned", "w_raised"})

\* a wait that ended by the timeout although every row count of it failed
C25_Witness == pc = "w_raised" /\ polls = 0 /\ ~sawRows /\ now >= end


\* C26: if the browser cannot be launched, the request fails with the launch
\* error: no navigation, wait or parse step follows, no further fallback is
\* tried, and the failure is not turned into an empty row list.
C26_LaunchFailureFailsRequest ==
    (buildCalls > 0 /\ driver = "None") =>
        /\ buildCalls = 1
        /\ navs = <<>>
        /\ html = NoTable
        /\ rows = <<>>
        /\ artifacts = <<>>
        /\ pc = "done" => /\ result.kind = "error"
                          /\ result.err.src = "launch"
                          /\ result.err.type \in {"RuntimeError", "Exception"}

\* an announcements request ended by a failed launch, after the API gave nothing
C26_Witness ==
    /\ pc = "done" /\ cat = "announcements" /\ buildCalls = 1 /\ driver = "None"
    /\ result.kind = "error" /\ result.err.src = "launch"
    /\ apiLog # <<>>


\* t is s without its leading and trailing blanks
IsTrimOf(t, s) ==
    \E i, j \in 0..Len(s) :
        /\ i + j <= Len(s)
        /\ t = SubSeq(s, i + 1, Len(s) - j)
        /\ \A k \in 1..i : s[k] = " "
        /\ \A k \in (Len(s) - j + 1)..Len(s) : s[k] = " "
        /\ t # <<>> => t[1] # " " /\ t[Len(t)] # " "

\* the positions of the key list whose key maps to a present, non-null,
\* non-empty value of the record
UsablePositions(call) ==
    {i \in 1..Len(call.keys) :
        /\ call.keys[i] \in DOMAIN call.item
        /\ ~call.item[call.keys[i]].isNone
        /\ call.item[call.keys[i]].text # <<>>}

\* C27: _pick(record, keys, default): if any key of the candidate list maps
\* to a value that is present, non-null and not the empty string, the first
\* such value in list order is returned as trimmed text; if no key does, the
\* default is returned exactly.
C27_PickFirstUsable ==
    picked.done =>
        LET usable == UsablePositions(pickCall) IN
        IF usable = {}
        THEN picked.text = pickCall.default
        ELSE LET first == CHOOSE i \in usable : \A j \in usable : i <= j IN
             IsTrimOf(picked.text, pickCall.item[pickCall.keys[first]].text)

\* the first key maps to the empty string, the second to text with blanks
\* around it, and the text came back without them
C27_Witness ==
    /\ picked.done
    /\ pickCall.keys = <<"symbol", "SYMBOL">>
    /\ pickCall.item = [symbol |-> TextVal(<<>>), SYMBOL |-> TextVal(<<" ", "x", " ">>)]
    /\ pickCall.default = <<" ", "t">>
    /\ picked.text = <<"x">>


\* the minimum cell count the parsers are said to ask for
SaidMinimum ==
    IF cat = "event_calendar" THEN 4
    ELSE IF cat = "corporate_actions" THEN 9
    ELSE 7

\* the body rows of the page read that have at least that many cells, in
\* document order
RowsWithEnoughCells ==
    LET Enough(tr) == tr.n >= SaidMinimum IN
    IF html.hasTable /\ html.hasTbody THEN SelectSeq(html.trs, Enough) ELSE <<>>

\* C28: for each of the four table parsers, a body row of the located table
\* produces an output row if and only if its cell count is at least the
\* category minimum (4 event calendar, 7 board meetings and announcements,
\* 9 corporate actions), and the output rows keep the document order of the
\* admitted rows.
C28_RowsWithEnoughCellsInOrder ==
    pc = "parsed" =>
        /\ Len(rows) = Len(RowsWithEnoughCells)
        /\ \A i \in 1..Len(rows) : rows[i] = RowOfTr(cat, RowsWithEnoughCells[i])

\* a row one cell short followed by a row with exactly the minimum: the
\* first is dropped, the second is the only output row
C28_Witness ==
    /\ pc = "parsed"
    /\ Len(html.trs) = 2
    /\ html.trs[1].n = SaidMinimum - 1 /\ html.trs[1].sym = <<"T">>
    /\ html.trs[2].n = SaidMinimum /\ html.trs[2].sym = <<" ", "X">>
    /\ Len(rows) = 1
    /\ rows[1].symbol = <<"X">>

\* the href a link field is said to carry: a path on the origin is put
\* behind the origin base URL, anything else is passed through
SaidLink(h) == IF h # <<>> /\ h[1] = "/" THEN <<"https://www.nseindia.com">> \o h ELSE h

\* C29: for every link-bearing field the parsers emit (details_link and
\* attachment_link of board meetings, attachment_link and xbrl_link of
\* announcements), an href starting with "/" is rewritten to the origin base
\* URL followed by the href, and a fully-qualified href is passed through
\* unchanged.
C29_LinksMadeAbsolute ==
    pc = "parsed" =>
        \A i \in 1..Len(rows) :
            LET tr == RowsWithEnoughCells[i] IN
            /\ cat = "board_meetings" =>
                  /\ rows[i].details_link = SaidLink(tr.hrefs[1])
                  /\ rows[i].attachment_link = SaidLink(tr.hrefs[2])
            /\ cat = "announcements" =>
                  /\ rows[i].attachment_link = SaidLink(tr.hrefs[1])
                  /\ rows[i].xbrl_link = SaidLink(tr.hrefs[2])

\* C30: in every row an orchestrator returns, on the API path and on the
\* HTML path alike, the symbol field is the source row's own symbol when
\* that is non-empty and otherwise the upper-cased, trimmed input ticker; it
\* is never the empty string.  (HTML path: the rows the parser hands back
\* are the rows returned.)
C30_SymbolNeverEmpty ==
    pc = "parsed" =>
        \A i \in 1..Len(rows) :
            LET own == Strip(RowsWithEnoughCells[i].sym) IN
            /\ rows[i].symbol # <<>>
            /\ rows[i].symbol = IF own # <<>> THEN own ELSE symbol


\* C31: with USE_SELENIUM_FALLBACK false, an API attempt that yields no
\* rows, because it failed or because it came back empty, makes each of the
\* four orchestrators raise an error; no browser is launched and the result
\* is not an empty list.
C31_FallbackOffRaises ==
    ~USE_SELENIUM_FALLBACK =>
        /\ buildCalls = 0 /\ launches = 0 /\ browser = "none" /\ navs = <<>>
        /\ (pc = "done" /\ (apiRet.kind = "raise" \/ apiRet.rows = <<>>)) =>
              /\ result.kind = "error"
              /\ result.err.type = "RuntimeError"
              /\ result.err.src = "fallback_disabled"
        /\ (pc = "done" /\ result.kind = "rows") => result.rows # <<>>

\* the API came back with an empty list and the request ended in the error
C31_Witness ==
    /\ pc = "done" /\ ~USE_SELENIUM_FALLBACK
    /\ apiRet = Returned(<<>>)
    /\ result.kind = "error" /\ result.err.src = "fallback_disabled"


\* C32: over one whole announcements request that ends in a render-wait
\* timeout with no rows recovered, diagnostic artifacts are captured exactly
\* once, by the waiter; the orchestrator's error handlers do not capture
\* them a second time.
C32_ArtifactsOnceOverRequest ==
    (pc = "done" /\ cat = "announcements" /\ result.kind = "error"
        /\ result.err.src = "ann_timeout") =>
        artifacts = <<"wait_for_table_timeout">>


\* C33: in wait_for_table_rows a browser-driver error raised by a poll never
\* aborts the wait: the waiter pauses and goes back to the loop, and if
\* every poll fails the only outcome is the timeout error after the
\* deadline, never the driver error itself.
C33_DriverErrorNeverAbortsWait ==
    [][ /\ pc = "w_retry" =>
              \/ pc' = "w_retry"
              \/ pc' = "w_loop" /\ now' > now
        /\ (pc = "w_loop" /\ now < end) => pc' \in {"w_loop", "w_count"}
        /\ pc' = "w_raised" =>
              /\ pc = "w_timeout"
              /\ now >= end
              /\ exc'.type = "TimeoutException" /\ exc'.src = "waiter"
        /\ pc' = "w_returned" => sawRows ]_vars

\* no row count ever succeeded, a pause after a driver error carried the
\* clock past the deadline, and the wait ended in the timeout error
C33_Witness ==
    /\ pc = "w_raised" /\ exc.type = "TimeoutException"
    /\ polls = 0 /\ ~sawRows /\ quiesced = 0
    /\ now > end


\* C34: in the announcements browser path, when the waiter reports at least
\* one table row but no row has the 7 cells the parser asks for (a single
\* placeholder row, say), the request returns an empty list: nothing is
\* raised, the scroll re-check is not performed, and the browser is still
\* released.
C34_PlaceholderRowGivesEmptyList ==
    [][ /\ (/\ pc = "ann_parse" /\ pc' # pc
             /\ CountTableRows(html) > 0
             /\ \A i \in 1..Len(html.trs) : html.trs[i].n < 7) =>
                /\ pc' = "ann_finally"
                /\ rows' = <<>>
                /\ retval' = Returned(<<>>)
                /\ exc' = NoExc
                /\ html' = html
        /\ (pc = "ann_finally" /\ retval = Returned(<<>>) /\ pc' # pc) =>
                /\ pc' = "done"
                /\ result' = RowsResult(<<>>)
                /\ driver = "set"
                /\ quitCalls' = quitCalls + 1 ]_vars

\* a finished request of that kind: the page read has a row, the result is
\* the empty list, the browser was quit and no artifact was saved
C34_Witness ==
    /\ pc = "done" /\ cat = "announcements"
    /\ sawRows /\ CountTableRows(html) = 1 /\ html.trs[1].n < 7
    /\ rows = <<>>
    /\ result = RowsResult(<<>>)
    /\ quitCalls = 1 /\ browser = "quit"
    /\ artifacts = <<>>


\* C35: two diagnostic-artifact captures made by different requests, or by
\* different steps of one request, never write to the same file: for any
\* interleaving, two captures with the same prefix within the same clock
\* second included, each capture's screenshot and HTML file are distinct
\* from every other capture's.
C35_CapturesNeverShareAFile ==
    \A i, j \in DOMAIN captures :
        i # j =>
            /\ captures[i].screenshot # captures[j].screenshot
            /\ captures[i].htmlfile # captures[j].htmlfile
            /\ captures[i].screenshot # captures[j].htmlfile

====
